---- MODULE Spec2Model ----
(***************************************************************************)
(* The replay acquisition pipeline of scripts/replay_downloader.js: the    *)
(* job store (table matches_to_download), the coordinator client           *)
(* (requestMatch), the download loop (downloadReplay) and the polling      *)
(* orchestrator (processPending), run by one or several worker processes   *)
(* against one database.                                                   *)
(*                                                                         *)
(* An action is one resumption of an async function: the awaited operation *)
(* completes (its effect is applied) and the continuation runs up to the   *)
(* next await.  The field pc of an activation names the awaited operation. *)
(***************************************************************************)
EXTENDS Naturals, Integers, Sequences, FiniteSets, TLC

\* ------------------------------------------------------------ bounds
NumProcs == 2
MaxCycles == 2
MaxJobs == 2
MaxListeners == 2
MaxElapse == 1

\* ------------------------------------------------- program constants
RETRY_COOLDOWN_MS == 300000
maxAttempts == 6
MatchListTimeoutMs == 20000
BackoffMs == 3000
maxDepth == 6
PadLength == 21

Procs == 1..NumProcs
Slots == 1..MaxCycles
Tokens == 1..MaxListeners
Users == <<"u1", "u2">>
ShareCodes == <<"A", "B">>
UserSet == {Users[i] : i \in 1..Len(Users)}
NoLock == <<>>
\* SQL null in a text column.
NULL == "NULL"
\* No response: for names the lookup a response answers, nodes holds the
\* response.
NoMatchList == [for |-> "", nodes |-> <<>>]

VARIABLES
  jobs,                  \* table matches_to_download: row id = index
  files,                 \* downloads/match_<j>.dem: absent, partial or complete
  now,                   \* Date.now()
  elapsed,               \* how often the clock has advanced
  isProcessing,          \* per process: guard flag of the download line
  gcReady,               \* per process: connected to the coordinator
  downloadPollerStarted, \* per process: interval timer installed
  retryAfterByMatchId,   \* per process: job id -> deadline (0: no entry)
  listeners,             \* per process: csgo's listeners of "matchList"
  gcInbox,               \* per process: lookups sent, not yet answered
  dl,                    \* per process and slot: a processPending activation
  isSendingTips,         \* per process: guard flag of the notification line
  steamReady,            \* per process: logged on to Steam
  friendsReady,          \* per process: the friends list has arrived
  messagePollerStarted,  \* per process: interval timer installed
  myFriends,             \* per process: client.myFriends, user -> relationship
  chat,                  \* the messages sent with sendFriendMessage
  tips,                  \* per process and slot: a sendPendingMessages activation
  intervals              \* per process: the setInterval timers installed, by line

dbVars == <<jobs, files>>
clockVars == <<now, elapsed>>
procVars == <<isProcessing, gcReady, downloadPollerStarted, retryAfterByMatchId>>
gcVars == <<listeners, gcInbox>>
msgVars == <<isSendingTips, steamReady, friendsReady, messagePollerStarted,
             myFriends, tips>>
vars == <<jobs, files, now, elapsed, isProcessing, gcReady,
          downloadPollerStarted, retryAfterByMatchId, listeners, gcInbox, dl,
          isSendingTips, steamReady, friendsReady, messagePollerStarted,
          myFriends, chat, tips, intervals>>

\* No setInterval timer is installed.
NoIntervals == [download |-> 0, message |-> 0]

\* An activation of sendPendingMessages that is not running. unvisited: the
\* rows of the latest batch that the for loop has not reached.
IdleTips == [pc |-> "idle", rows |-> <<>>, idx |-> 0, unvisited |-> {}]

\* An activation of processPending that is not running.
\* No error: the value of a variable that holds no caught error.
NoError == [name |-> "", code |-> "", message |-> ""]

\* An activation of processPending that is not running. Of downloadReplay it
\* holds the loop counter, the failure being handled (response.status of a
\* response that is not ok, or the error caught) and the delay of the sleep
\* awaited; waits and non502 record the call's history: the number of
\* sleeps, and whether an attempt failed otherwise than with a 502.
IdleCycle ==
  [pc |-> "idle", row |-> 0, handler |-> 0, timeout |-> FALSE,
   attempt |-> 0, sleepMs |-> 0, status |-> 0, error |-> NoError,
   waits |-> 0, non502 |-> FALSE, err |-> "", matchList |-> NoMatchList,
   replayUrl |-> ""]

Ids == 1..Len(jobs)

Max(S) == CHOOSE x \in S : \A y \in S : y <= x

Min(S) == CHOOSE x \in S : \A y \in S : x <= y

\* ------------------------------------------------------- the job store

MaxIdOfUser_Min(u) == Min({i \in Ids : jobs[i].user_id = u})

\* select max(id) from matches_to_download m2 where m2.user_id = m.user_id
MaxIdOfUser(u) == Max({i \in Ids : jobs[i].user_id = u})

\* The rows of the CTE "pending" before ordering, limit and locking.
PendingCandidates_AnyStatus ==
  {j \in Ids : j = MaxIdOfUser(jobs[j].user_id)}

PendingCandidates_Analysed ==
  {j \in Ids : /\ jobs[j].status \in {"pending", "processed", "parsed"}
                /\ j = MaxIdOfUser(jobs[j].user_id)}

PendingCandidates ==
  {j \in Ids : jobs[j].status = "pending" /\ j = MaxIdOfUser(jobs[j].user_id)}

\* for update skip locked: rows locked by another transaction are passed over.
Lockable_IgnoreLocks(S) == S

Lockable(S) == {j \in S : jobs[j].lock = NoLock}

\* order by id desc limit 1 (0: rowCount = 0).
FirstByIdAsc(S) == IF S = {} THEN 0 ELSE Min(S)

FirstByIdDesc(S) == IF S = {} THEN 0 ELSE Max(S)

SelectPending == FirstByIdDesc(Lockable(PendingCandidates))

SetStatus(j, s) == [jobs EXCEPT ![j].status = s]

\* ROLLBACK, COMMIT: the transaction's row lock is released.
ReleaseLock(t, j) == IF j = 0 THEN t ELSE [t EXCEPT ![j].lock = NoLock]

\* update ... set status = 'processing' where id = $1, made visible by COMMIT.
CommitClaim(j) == ReleaseLock(SetStatus(j, "processing"), j)

\* catch { ROLLBACK }: the uncommitted update is discarded.
Rollback_Committing(j) == IF j = 0 THEN jobs ELSE CommitClaim(j)

Rollback(j) == ReleaseLock(jobs, j)

\* path.join(downloadsDir, `match_${row.id}.dem`)
MatchFile_Fixed(j) == <<"downloads", 1>>

MatchFile(j) == <<"downloads", j>>

\* update ... set status = 'downloaded', file_path = $2 where id = $1
markDownloaded(id, filePath) ==
  [jobs EXCEPT ![id].status = "downloaded", ![id].file_path = filePath]

\* update ... set status = 'error' where id = $1
markError_NoWhere(id) == [j \in Ids |-> [jobs[j] EXCEPT !.status = "error"]]

markError(id) == SetStatus(id, "error")

markPending(id) == SetStatus(id, "pending")

\* A single-row update waits for a row lock held by an open transaction.
CanUpdate(id) == jobs[id].lock = NoLock

\* ------------------------------------------------------------- startup

\* The module state of every process when its script has been loaded.
Startup ==
  /\ now = 1
  /\ elapsed = 0
  /\ isProcessing = [p \in Procs |-> FALSE]
  /\ gcReady = [p \in Procs |-> FALSE]
  /\ downloadPollerStarted = [p \in Procs |-> FALSE]
  /\ retryAfterByMatchId = [p \in Procs |-> [j \in 1..MaxJobs |-> 0]]
  /\ listeners = [p \in Procs |-> {}]
  /\ gcInbox = [p \in Procs |-> {}]
  /\ dl = [p \in Procs |-> [c \in Slots |-> IdleCycle]]
  /\ isSendingTips = [p \in Procs |-> FALSE]
  /\ steamReady = [p \in Procs |-> FALSE]
  /\ friendsReady = [p \in Procs |-> FALSE]
  /\ messagePollerStarted = [p \in Procs |-> FALSE]
  /\ myFriends = [p \in Procs |-> [u \in UserSet |-> "undefined"]]
  /\ chat = {}
  /\ tips = [p \in Procs |-> [c \in Slots |-> IdleTips]]
  /\ intervals = [p \in Procs |-> NoIntervals]

\* The workers start against an empty job store.
Init ==
  /\ jobs = <<>>
  /\ files = [j \in 1..MaxJobs |-> "absent"]
  /\ Startup

\* A row whose replay an earlier run of the worker has downloaded.
DownloadedRow(u, sc, j) ==
  [user_id |-> u, share_code |-> sc, status |-> "downloaded",
   file_path |-> MatchFile(j), coach_tip |-> NULL, tip_sent |-> FALSE,
   lock |-> NoLock]

\* The workers start against a job store that holds the downloaded jobs of
\* one user or of two.
InitNotify ==
  /\ \E u \in UserSet :
       jobs = <<DownloadedRow(Users[1], ShareCodes[1], 1),
                DownloadedRow(u, ShareCodes[2], 2)>>
  /\ files = [j \in 1..MaxJobs |-> "complete"]
  /\ Startup

\* ------------------------------------------------ the world outside

\* The values a new row may take for a field: those of seq in use, and the
\* first one not in use (users and share codes are opaque: which new one is
\* taken makes no difference).
Fresh(seq, used) ==
  LET ok(k) == \A m \in 1..(k - 1) : seq[m] \in used
  IN  {seq[k] : k \in {i \in 1..Len(seq) : ok(i)}}

\* A user submits a share code: a new row, with the next id, in pending.
CreateJob ==
  /\ Len(jobs) < MaxJobs
  /\ \E u \in Fresh(Users, {jobs[i].user_id : i \in Ids}),
        sc \in Fresh(ShareCodes, {jobs[i].share_code : i \in Ids}) :
       jobs' = Append(jobs, [user_id |-> u, share_code |-> sc, status |-> "pending",
                             file_path |-> <<>>, coach_tip |-> NULL, tip_sent |-> FALSE,
                             lock |-> NoLock])
  /\ UNCHANGED <<msgVars, chat, files, clockVars, intervals, procVars, gcVars, dl>>

Elapse ==
  /\ elapsed < MaxElapse
  /\ elapsed' = elapsed + 1
  /\ now' = now + RETRY_COOLDOWN_MS
  /\ UNCHANGED <<msgVars, chat, dbVars, procVars, gcVars, dl, intervals>>

\* --------------------------------------------- processPending: entry

SetCycle(p, c, r) == [dl EXCEPT ![p][c] = r]

IdleSlots(p) == {c \in Slots : dl[p][c].pc = "idle"}

\* if (isProcessing || !gcReady) return;
CanStartDownload_NoGuard(p) == gcReady[p]

CanStartDownload_Unconnected(p) == ~isProcessing[p]

CanStartDownload(p) == ~isProcessing[p] /\ gcReady[p]

\* isProcessing = true; ...; await getPendingMatch() -> await pool.connect()
StartCycle(p, ready) ==
  /\ ready
  /\ IdleSlots(p) # {}
  /\ isProcessing' = [isProcessing EXCEPT ![p] = TRUE]
  /\ dl' = SetCycle(p, Min(IdleSlots(p)), [IdleCycle EXCEPT !.pc = "begin"])

\* finally { isProcessing = false }: the activation is over.
EndCycle_FlagKept(p, c) ==
  /\ dl' = SetCycle(p, c, IdleCycle)
  /\ UNCHANGED isProcessing

EndCycle(p, c) ==
  /\ isProcessing' = [isProcessing EXCEPT ![p] = FALSE]
  /\ dl' = SetCycle(p, c, IdleCycle)

\* The interval timer of startDownloadPolling fires.
Tick(p) ==
  /\ downloadPollerStarted[p]
  /\ StartCycle(p, CanStartDownload(p))
  /\ UNCHANGED <<msgVars, chat, dbVars, clockVars, intervals, gcReady, downloadPollerStarted,
                 retryAfterByMatchId, gcVars>>

\* The tick finds the guard held, or the coordinator away: it returns at once.
TickSkip(p) ==
  /\ downloadPollerStarted[p]
  /\ ~CanStartDownload(p)
  /\ UNCHANGED vars

\* if (downloadPollerStarted) return; ... setInterval(...)   and
\* if (messagePollerStarted || !friendsReady) return; ... setInterval(...):
\* the number of timers of a line after a call of its start function.
setInterval_Unguarded(started, installed) == installed + 1

setInterval(started, installed) == IF started THEN installed ELSE installed + 1

\* csgo.on("connectedToGC"): gcReady = true; startDownloadPolling(), which on
\* its first call installs the interval and runs processPending() at once.
ConnectedToGC(p) ==
  /\ gcReady' = [gcReady EXCEPT ![p] = TRUE]
  /\ downloadPollerStarted' = [downloadPollerStarted EXCEPT ![p] = TRUE]
  /\ intervals' = [intervals EXCEPT
                     ![p].download = setInterval(downloadPollerStarted[p], @)]
  /\ IF downloadPollerStarted[p] \/ isProcessing[p]
       THEN UNCHANGED <<msgVars, chat, isProcessing, dl>>
       ELSE StartCycle(p, TRUE)
  /\ UNCHANGED <<msgVars, chat, dbVars, clockVars, retryAfterByMatchId, gcVars>>

DisconnectedFromGC(p) ==
  /\ gcReady[p]
  /\ gcReady' = [gcReady EXCEPT ![p] = FALSE]
  /\ UNCHANGED <<msgVars, chat, dbVars, clockVars, intervals, isProcessing, downloadPollerStarted,
                 retryAfterByMatchId, gcVars, dl>>

\* ------------------------------------------- processPending: the catch

Is502_AnyError(message) == message # ""

Is502_Never(message) == FALSE

Is502(message) == message = "Replay download failed: 502"

\* catch (error), entered by activation record cur: with no currentRow the
\* cycle just ends; a repeated 502 records a cooldown and awaits markPending;
\* anything else awaits markError.
Catch(p, c, cur, currentRow, message) ==
  IF currentRow = 0
    THEN EndCycle(p, c) /\ UNCHANGED retryAfterByMatchId
    ELSE /\ dl' = SetCycle(p, c, [cur EXCEPT
                    !.row = currentRow, !.err = message,
                    !.pc = IF Is502(message) THEN "catchPending" ELSE "catchError"])
         /\ retryAfterByMatchId' =
              IF Is502(message)
                THEN [retryAfterByMatchId EXCEPT ![p][currentRow] = now + RETRY_COOLDOWN_MS]
                ELSE retryAfterByMatchId
         /\ UNCHANGED isProcessing

\* ----------------------------------------------------- getPendingMatch

\* pool.connect() and BEGIN.
TxBegin(p, c) ==
  /\ dl[p][c].pc = "begin"
  /\ dl' = SetCycle(p, c, [dl[p][c] EXCEPT !.pc = "select"])
  /\ UNCHANGED <<msgVars, chat, dbVars, clockVars, intervals, procVars, gcVars>>

\* The locking select: the winning row is locked by this transaction.
TxSelect(p, c) ==
  /\ dl[p][c].pc = "select"
  /\ LET j == SelectPending IN
       IF j = 0
         THEN /\ dl' = SetCycle(p, c, [dl[p][c] EXCEPT !.pc = "commitEmpty"])
              /\ UNCHANGED jobs
         ELSE /\ dl' = SetCycle(p, c, [dl[p][c] EXCEPT !.pc = "update", !.row = j])
              /\ jobs' = [jobs EXCEPT ![j].lock = <<p, c>>]
  /\ UNCHANGED <<msgVars, chat, files, clockVars, intervals, procVars, gcVars>>

\* rowCount === 0: COMMIT; return null; and processPending returns.
TxCommitEmpty(p, c) ==
  /\ dl[p][c].pc = "commitEmpty"
  /\ EndCycle(p, c)
  /\ UNCHANGED <<msgVars, chat, dbVars, clockVars, intervals, gcReady, downloadPollerStarted,
                 retryAfterByMatchId, gcVars>>

\* The update of the winning row, not yet committed.
TxUpdate(p, c) ==
  /\ dl[p][c].pc = "update"
  /\ dl' = SetCycle(p, c, [dl[p][c] EXCEPT !.pc = "commit"])
  /\ UNCHANGED <<msgVars, chat, dbVars, clockVars, intervals, procVars, gcVars>>

\* A step of the claim throws (connect, BEGIN, select, update or COMMIT):
\* catch { await db.query("ROLLBACK") ... }.
TxFail(p, c) ==
  /\ dl[p][c].pc \in {"begin", "select", "commitEmpty", "update", "commit"}
  /\ dl' = SetCycle(p, c, [dl[p][c] EXCEPT !.pc = "rollback"])
  /\ UNCHANGED <<msgVars, chat, dbVars, clockVars, intervals, procVars, gcVars>>

\* The ROLLBACK is done: throw error; processPending catches it with
\* currentRow = null and ends.
TxRollback(p, c) ==
  /\ dl[p][c].pc = "rollback"
  /\ jobs' = Rollback(dl[p][c].row)
  /\ Catch(p, c, dl[p][c], 0, "claim failed")
  /\ UNCHANGED <<msgVars, chat, files, clockVars, intervals, gcReady, downloadPollerStarted, gcVars>>

\* -------------------------------------------------------- requestMatch

FreeTokens(p) == Tokens \ (listeners[p] \cup {dl[p][k].handler : k \in Slots})

\* csgo.once("matchList", handler)
Once(ls, handler) == ls \cup {handler}

\* catch (error) { clearTimeout(timeout); csgo.removeListener(...); reject(error) }
RemoveListener_Kept(ls, handler) == ls

RemoveListener(ls, handler) == ls \ {handler}

ClearTimeout(armed) == FALSE

\* const retryAfter = retryAfterByMatchId.get(row.id);
\* if (retryAfter && Date.now() < retryAfter)
CoolingDown_Never(p, id) == FALSE

CoolingDown(p, id) ==
  retryAfterByMatchId[p][id] # 0 /\ now < retryAfterByMatchId[p][id]

\* COMMIT of the claim; the job is cooling down: await markPending(row.id).
ClaimCooldown(p, c) ==
  /\ dl[p][c].pc = "commit"
  /\ CoolingDown(p, dl[p][c].row)
  /\ jobs' = CommitClaim(dl[p][c].row)
  /\ dl' = SetCycle(p, c, [dl[p][c] EXCEPT !.pc = "markPending"])
  /\ UNCHANGED <<msgVars, chat, files, clockVars, intervals, procVars, gcVars>>

\* COMMIT of the claim; requestMatch(share_code): the timer is set, the
\* listener attached, the lookup sent, and the cycle awaits the promise.
ClaimRequest(p, c) ==
  /\ dl[p][c].pc = "commit"
  /\ ~CoolingDown(p, dl[p][c].row)
  /\ FreeTokens(p) # {}
  /\ LET j == dl[p][c].row
         handler == Min(FreeTokens(p))
     IN  /\ jobs' = CommitClaim(j)
         /\ listeners' = [listeners EXCEPT ![p] = Once(@, handler)]
         /\ gcInbox' = [gcInbox EXCEPT ![p] = @ \cup {jobs[j].share_code}]
         /\ dl' = SetCycle(p, c, [dl[p][c] EXCEPT
                    !.pc = "await", !.handler = handler, !.timeout = TRUE])
  /\ UNCHANGED <<msgVars, chat, files, clockVars, intervals, procVars>>

\* COMMIT of the claim; csgo.requestGame throws: the promise is rejected with
\* that error and processPending catches it.
ClaimRequestThrows(p, c) ==
  /\ dl[p][c].pc = "commit"
  /\ ~CoolingDown(p, dl[p][c].row)
  /\ FreeTokens(p) # {}
  /\ LET j == dl[p][c].row
         handler == Min(FreeTokens(p))
     IN  /\ jobs' = CommitClaim(j)
         /\ listeners' = [listeners EXCEPT
                            ![p] = RemoveListener(Once(@, handler), handler)]
         /\ Catch(p, c, [dl[p][c] EXCEPT !.handler = handler,
                                         !.timeout = ClearTimeout(TRUE)],
                  j, "requestGame failed")
  /\ UNCHANGED <<msgVars, chat, files, clockVars, intervals, gcReady, downloadPollerStarted, gcInbox>>

\* The 20 s timer of a requestMatch call fires: reject(new Error(...)).
\* Rejecting a promise that is already settled does nothing.
GcTimeout(p, c) ==
  /\ dl[p][c].timeout
  /\ IF dl[p][c].pc = "await"
       THEN Catch(p, c, [dl[p][c] EXCEPT !.timeout = FALSE], dl[p][c].row,
                  "Timed out waiting for matchList")
       ELSE /\ dl' = SetCycle(p, c, [dl[p][c] EXCEPT !.timeout = FALSE])
            /\ UNCHANGED <<msgVars, chat, isProcessing, retryAfterByMatchId>>
  /\ UNCHANGED <<msgVars, chat, dbVars, clockVars, intervals, gcReady, downloadPollerStarted, gcVars>>

\* -------------------------------------------------------- findReplayUrl
\* A response is a graph of JavaScript values: nodes[1] is the response, a
\* field holds the index of its value, 0 stands for undefined. The fields
\* of an object are listed in the order of Object.values, the keys of an
\* array are its indices. Strings are strings; a number is a natural number
\* below 2^31.
Value(kind, str, num, fields) ==
  [kind |-> kind, str |-> str, num |-> num, fields |-> fields]

Field(k, n) == [k |-> k, n |-> n]

Obj(fields) == Value("object", "", 0, fields)

IndexKeys == <<"0", "1", "2", "3">>

Arr(items) ==
  Value("array", "", 0, [i \in 1..Len(items) |-> Field(IndexKeys[i], items[i])])

Str(s) == Value("string", s, 0, <<>>)

Num(n) == Value("number", "", n, <<>>)

JsNull == Value("null", "", 0, <<>>)

\* node?.[key]: undefined for undefined, null, a number, a missing key. (A
\* string has its characters and length, which no access path asks for but
\* ?.[0], whose one-character result has none of the keys asked of it.)
Get(h, n, key) ==
  IF n = 0
    THEN 0
    ELSE LET at == {i \in 1..Len(h[n].fields) : h[n].fields[i].k = key}
         IN  IF at = {} THEN 0 ELSE h[n].fields[Min(at)].n

\* ToBoolean: undefined, null, "" and 0 are falsy.
Truthy(h, n) ==
  /\ n # 0
  /\ CASE h[n].kind = "string" -> h[n].str # ""
       [] h[n].kind = "number" -> h[n].num # 0
       [] h[n].kind = "null" -> FALSE
       [] OTHER -> TRUE

\* a || b
Or(h, a, b) == IF Truthy(h, a) THEN a ELSE b

DigitChars == <<"0", "1", "2", "3", "4", "5", "6", "7", "8", "9">>

\* Number.prototype.toString of a natural number.
RECURSIVE Decimal(_)
Decimal(n) ==
  IF n < 10 THEN DigitChars[n + 1] ELSE Decimal(n \div 10) \o DigitChars[(n % 10) + 1]

\* String(value), `${value}`
String(h, n) ==
  CASE h[n].kind = "string" -> h[n].str
    [] h[n].kind = "number" -> Decimal(h[n].num)
    [] h[n].kind = "null" -> "null"
    [] OTHER -> "[object Object]"

\* str.padStart(targetLength, "0"): a string that is long enough is returned
\* as it is.
RECURSIVE padStart(_, _)
padStart_Unpadded(str, targetLength) == str

padStart(str, targetLength) ==
  IF Len(str) >= targetLength THEN str ELSE padStart("0" \o str, targetLength)

\* str.includes(searchString)
includes(str, searchString) ==
  \E i \in 1..(Len(str) - Len(searchString) + 1) :
    SubSeq(str, i, i + Len(searchString) - 1) = searchString

\* if (!node || depth > maxDepth) continue;
TooDeep_ByOne(depth) == depth > maxDepth + 1

TooDeep(depth) == depth > maxDepth

\* findReplayUrlInObject, queue.push inside the while loop: the entries
\* that the entries of the queue push behind it as they are taken off, in
\* order; an entry that is skipped or holds a string or a number pushes none.
RECURSIVE Pushed(_, _)
Pushed(h, queue) ==
  IF queue = <<>>
    THEN <<>>
    ELSE LET node == Head(queue).node
             depth == Head(queue).depth
         IN  (IF Truthy(h, node) /\ ~TooDeep(depth)
                   /\ h[node].kind \in {"array", "object"}
                THEN [i \in 1..Len(h[node].fields) |->
                        [node |-> h[node].fields[i].n, depth |-> depth + 1]]
                ELSE <<>>)
               \o Pushed(h, Tail(queue))

\* findReplayUrlInObject: the while loop over the queue of { node, depth };
\* the node of the first string that includes ".dem.bz2", 0 for null. The
\* queue is first in, first out: the loop takes off the entries it holds
\* before any entry they push, and returns at the first of them that is
\* such a string.
RECURSIVE Search(_, _)
Search(h, queue) ==
  IF queue = <<>>
    THEN 0
    ELSE LET hits == {i \in 1..Len(queue) :
                        /\ Truthy(h, queue[i].node)
                        /\ ~TooDeep(queue[i].depth)
                        /\ h[queue[i].node].kind = "string"
                        /\ includes(h[queue[i].node].str, ".dem.bz2")}
         IN  IF hits # {}
               THEN queue[Min(hits)].node
               ELSE Search(h, Pushed(h, queue))

findReplayUrlInObject(h) == Search(h, <<[node |-> 1, depth |-> 0]>>)

\* Array.isArray(roundStats) ? roundStats[roundStats.length - 1] : null
lastRound(h) ==
  LET roundStats == Or(h, Get(h, 1, "round_stats_all"),
                          Get(h, Get(h, 1, "0"), "round_stats_all"))
  IN  IF roundStats # 0 /\ h[roundStats].kind = "array" /\ h[roundStats].fields # <<>>
        THEN h[roundStats].fields[Len(h[roundStats].fields)].n
        ELSE 0

\* !serverIp, !tvPort, !reservationId
Missing_OnlyUndefined(h, n) == n = 0

Missing(h, n) == ~Truthy(h, n)

reservationId(h) == Get(h, lastRound(h), "reservationid")

paddedReservation(h) == padStart(String(h, reservationId(h)), PadLength)

\* buildReplayUrl ("": null)
buildReplayUrl(h) ==
  LET watchable == Or(h, Get(h, 1, "watchablematchinfo"),
                         Get(h, Get(h, 1, "0"), "watchablematchinfo"))
      serverIp == Get(h, watchable, "server_ip")
      tvPort == Get(h, watchable, "tv_port")
  IN  IF Missing(h, serverIp) \/ Missing(h, tvPort) \/ Missing(h, reservationId(h))
        THEN ""
        ELSE "http://replay" \o String(h, serverIp) \o ".valve.net/730/"
               \o paddedReservation(h) \o "_" \o String(h, tvPort) \o ".dem.bz2"

\* The value of a candidate as candidates.find sees it: its text if it is a
\* non-empty string, "" if it is anything else.
StringOf(h, n) == IF n # 0 /\ h[n].kind = "string" THEN h[n].str ELSE ""

alternativeUrl(h) ==
  Or(h, Or(h, Get(h, Get(h, lastRound(h), "reservation"), "replay_url"),
              Get(h, lastRound(h), "map")),
        Get(h, lastRound(h), "replay_url"))

candidates_DerivedFirst(h) ==
  <<buildReplayUrl(h),
    StringOf(h, Get(h, Get(h, 1, "match"), "replay_url")),
    StringOf(h, Get(h, Get(h, Get(h, Get(h, 1, "matches"), "0"), "match"), "replay_url")),
    StringOf(h, Get(h, Get(h, Get(h, 1, "matches"), "0"), "replay_url")),
    StringOf(h, Get(h, 1, "replay_url")),
    StringOf(h, Get(h, Get(h, 1, "0"), "replay_url")),
    StringOf(h, alternativeUrl(h)),
    StringOf(h, findReplayUrlInObject(h))>>

candidates(h) ==
  <<StringOf(h, Get(h, Get(h, 1, "match"), "replay_url")),
    StringOf(h, Get(h, Get(h, Get(h, Get(h, 1, "matches"), "0"), "match"), "replay_url")),
    StringOf(h, Get(h, Get(h, Get(h, 1, "matches"), "0"), "replay_url")),
    StringOf(h, Get(h, 1, "replay_url")),
    StringOf(h, Get(h, Get(h, 1, "0"), "replay_url")),
    StringOf(h, alternativeUrl(h)),
    buildReplayUrl(h),
    StringOf(h, findReplayUrlInObject(h))>>

\* candidates.find((value) => typeof value === "string" && value.length)
find(c) ==
  IF \A i \in 1..Len(c) : c[i] = ""
    THEN ""
    ELSE c[Min({i \in 1..Len(c) : c[i] # ""})]

\* findReplayUrl ("": null or undefined, no URL found)
findReplayUrl(matchList) ==
  IF matchList.nodes = <<>> \/ matchList.nodes[1].kind \notin {"object", "array"}
    THEN ""
    ELSE find(candidates(matchList.nodes))

\* A response with the field replay_url.
DirectBody(url) == <<Obj(<<Field("replay_url", 2)>>), Str(url)>>

\* handler(matchList): clearTimeout(timeout); resolve(matchList); and the
\* continuation of processPending when this settles its promise.
Handler_AlwaysDownload(cur, matchList) ==
  [cur EXCEPT !.timeout = FALSE, !.matchList = matchList,
              !.replayUrl = findReplayUrl(matchList), !.pc = "mkdir"]

Handler(cur, matchList) ==
  IF cur.pc # "await"
    THEN [cur EXCEPT !.timeout = ClearTimeout(cur.timeout)]
    ELSE [cur EXCEPT !.timeout = ClearTimeout(cur.timeout),
                     !.matchList = matchList,
                     !.replayUrl = findReplayUrl(matchList),
                     !.pc = IF findReplayUrl(matchList) = ""
                              THEN "markPending" ELSE "mkdir"]

\* The coordinator answers one of the lookups sent: csgo emits "matchList",
\* which detaches every once-listener and calls it.
Emit(p, responses) ==
  /\ \E sc \in gcInbox[p], nodes \in responses :
       /\ gcInbox' = [gcInbox EXCEPT ![p] = @ \ {sc}]
       /\ dl' = [dl EXCEPT ![p] = [c \in Slots |->
                   IF dl[p][c].handler \in listeners[p]
                     THEN Handler(dl[p][c], [for |-> sc, nodes |-> nodes])
                     ELSE dl[p][c]]]
  /\ listeners' = [listeners EXCEPT ![p] = {}]
  /\ UNCHANGED <<msgVars, chat, dbVars, clockVars, intervals, procVars>>

\* A response that carries a replay URL in its field replay_url, or none.
GcMatchList(p) == Emit(p, {DirectBody(""), DirectBody("http://replay1.valve.net/730/1.dem.bz2")})

\* ------------------------------------------------------ downloadReplay

\* What fetch or the pipeline can throw: name, cause.code, message.
AbortError == [name |-> "AbortError", code |-> "", message |-> "This operation was aborted"]
SocketError == [name |-> "TypeError", code |-> "UND_ERR_SOCKET", message |-> "fetch failed"]
Terminated == [name |-> "TypeError", code |-> "", message |-> "terminated"]
OtherSideClosed == [name |-> "SocketError", code |-> "", message |-> "other side closed"]
NotFoundError == [name |-> "TypeError", code |-> "ENOTFOUND", message |-> "fetch failed"]
DecodeError == [name |-> "Error", code |-> "", message |-> "bzip2 data error"]

\* The rejections of fetch that the network causes, and the failures of the
\* pipeline. The abort signal is raised by the attempt's timer only, which
\* is cleared when fetch resolves: the pipeline is never aborted.
FetchErrors == {SocketError, Terminated, OtherSideClosed, NotFoundError}
PipelineErrors == {Terminated, OtherSideClosed, DecodeError}

isRetryableFetchError_Any(error) == TRUE

isRetryableFetchError(error) ==
  \/ error.name = "AbortError"
  \/ error.code = "UND_ERR_SOCKET"
  \/ error.message = "terminated"
  \/ error.message = "other side closed"

\* Responses that are not (ok with a body); 200 is an ok response without one.
HttpStatuses == {200, 404, 502, 503, 504}

retryable == {502, 503, 504}

\* `Replay download failed: ${response.status}`
DownloadFailed(status) ==
  CASE status = 502 -> "Replay download failed: 502"
    [] status = 503 -> "Replay download failed: 503"
    [] status = 504 -> "Replay download failed: 504"
    [] status = 404 -> "Replay download failed: 404"
    [] OTHER -> "Replay download failed: 200"

\* await sleep(3000 * attempt); continue;   (cur: the activation, with the
\* failure of this attempt in status or error)
Backoff_Fixed(p, c, cur) ==
  /\ dl' = SetCycle(p, c, [cur EXCEPT
             !.pc = "sleep", !.sleepMs = BackoffMs, !.waits = cur.waits + 1])
  /\ UNCHANGED <<isProcessing, retryAfterByMatchId>>

Backoff(p, c, cur) ==
  /\ dl' = SetCycle(p, c, [cur EXCEPT
             !.pc = "sleep", !.sleepMs = BackoffMs * cur.attempt,
             !.waits = cur.waits + 1])
  /\ UNCHANGED <<isProcessing, retryAfterByMatchId>>

\* if (attempt < maxAttempts && isRetryableFetchError(error)) { sleep;
\* continue } throw error;   in both catch blocks of downloadReplay.
RetryOrThrow(p, c, cur) ==
  IF cur.attempt < maxAttempts /\ isRetryableFetchError(cur.error)
    THEN Backoff(p, c, cur)
    ELSE Catch(p, c, cur, cur.row, cur.error.message)

\* ensureDownloadsDir(), then the first attempt's fetch is issued.
Mkdir(p, c) ==
  /\ dl[p][c].pc = "mkdir"
  /\ dl' = SetCycle(p, c, [dl[p][c] EXCEPT !.pc = "fetch", !.attempt = 1])
  /\ UNCHANGED <<msgVars, chat, dbVars, clockVars, intervals, procVars, gcVars>>

MkdirFail(p, c) ==
  /\ dl[p][c].pc = "mkdir"
  /\ Catch(p, c, dl[p][c], dl[p][c].row, "mkdir failed")
  /\ UNCHANGED <<msgVars, chat, dbVars, clockVars, intervals, gcReady, downloadPollerStarted, gcVars>>

\* fetch resolves with an ok response with a body: the pipeline starts and
\* createWriteStream creates the destination file.
FetchOk(p, c) ==
  /\ dl[p][c].pc = "fetch"
  /\ files' = [files EXCEPT ![dl[p][c].row] = "partial"]
  /\ dl' = SetCycle(p, c, [dl[p][c] EXCEPT !.pc = "pipeline"])
  /\ UNCHANGED <<msgVars, chat, jobs, clockVars, intervals, procVars, gcVars>>

\* fetch resolves with another response: a retryable status before the last
\* attempt is slept on, anything else is thrown.
FetchStatus(p, c) ==
  /\ dl[p][c].pc = "fetch"
  /\ \E status \in HttpStatuses :
       LET cur == [dl[p][c] EXCEPT !.status = status,
                                   !.non502 = @ \/ status # 502]
       IN  IF status \in retryable /\ cur.attempt < maxAttempts
             THEN Backoff(p, c, cur)
             ELSE Catch(p, c, cur, cur.row, DownloadFailed(status))
  /\ UNCHANGED <<msgVars, chat, dbVars, clockVars, intervals, gcReady, downloadPollerStarted, gcVars>>

\* setTimeout(() => controller.abort(), DOWNLOAD_TIMEOUT_MS) fires while
\* fetch is awaited: fetch rejects with an AbortError, caught by the outer
\* catch, which clears the timer. fetch resolving clears the timer as well,
\* so it can fire at no other point of an attempt.
AbortTimer(p, c) ==
  /\ dl[p][c].pc = "fetch"
  /\ RetryOrThrow(p, c, [dl[p][c] EXCEPT !.error = AbortError, !.non502 = TRUE])
  /\ UNCHANGED <<msgVars, chat, dbVars, clockVars, intervals, gcReady, downloadPollerStarted, gcVars>>

\* fetch rejects because the connection broke or could not be made.
FetchThrows(p, c) ==
  /\ dl[p][c].pc = "fetch"
  /\ \E error \in FetchErrors :
       RetryOrThrow(p, c, [dl[p][c] EXCEPT !.error = error, !.non502 = TRUE])
  /\ UNCHANGED <<msgVars, chat, dbVars, clockVars, intervals, gcReady, downloadPollerStarted, gcVars>>

\* The pipeline finishes: downloadReplay returns; await markDownloaded.
PipelineOk(p, c) ==
  /\ dl[p][c].pc = "pipeline"
  /\ files' = [files EXCEPT ![dl[p][c].row] = "complete"]
  /\ dl' = SetCycle(p, c, [dl[p][c] EXCEPT !.pc = "markDownloaded"])
  /\ UNCHANGED <<msgVars, chat, jobs, clockVars, intervals, procVars, gcVars>>

\* A stage of the pipeline fails: await fsp.rm(outputFile, { force: true }).
PipelineFails(p, c) ==
  /\ dl[p][c].pc = "pipeline"
  /\ \E error \in PipelineErrors :
       dl' = SetCycle(p, c, [dl[p][c] EXCEPT
               !.pc = "rm", !.error = error, !.non502 = TRUE])
  /\ UNCHANGED <<msgVars, chat, dbVars, clockVars, intervals, procVars, gcVars>>

\* fsp.rm of the destination file.
Remove_Kept(fs, j) == fs

Remove(fs, j) == [fs EXCEPT ![j] = "absent"]

\* The file is gone: the pipeline's error is slept on or thrown.
RmDone(p, c) ==
  /\ dl[p][c].pc = "rm"
  /\ files' = Remove(files, dl[p][c].row)
  /\ RetryOrThrow(p, c, dl[p][c])
  /\ UNCHANGED <<msgVars, chat, jobs, clockVars, intervals, gcReady, downloadPollerStarted, gcVars>>

\* fsp.rm itself throws: that error leaves downloadReplay, the file stays.
RmFail(p, c) ==
  /\ dl[p][c].pc = "rm"
  /\ Catch(p, c, dl[p][c], dl[p][c].row, "rm failed")
  /\ UNCHANGED <<msgVars, chat, dbVars, clockVars, intervals, gcReady, downloadPollerStarted, gcVars>>

\* The sleep is over: the next attempt's fetch is issued.
Sleep(p, c) ==
  /\ dl[p][c].pc = "sleep"
  /\ dl' = SetCycle(p, c, [dl[p][c] EXCEPT
             !.pc = "fetch", !.attempt = dl[p][c].attempt + 1,
             !.status = 0, !.error = NoError])
  /\ UNCHANGED <<msgVars, chat, dbVars, clockVars, intervals, procVars, gcVars>>

\* ---------------------------------------------------------- Steam chat
\* SteamUser.EFriendRelationship, with "undefined" for a user the client has
\* no entry for.
Relationships == {"undefined", "None", "Blocked", "RequestRecipient",
                  "Friend", "RequestInitiator", "Ignored", "IgnoredFriend"}

canMessageUser_Anyone(p, steamId) == TRUE

canMessageUser(p, steamId) ==
  myFriends[p][steamId] \notin {"undefined", "None", "Blocked", "Ignored"}

\* client.chat.sendFriendMessage either delivers or throws.
DownloadNotice(j) == <<"downloaded", jobs[j].user_id, j>>
TipMessage(j) == <<"tip", jobs[j].user_id, j>>

\* catch (error) in sendDownloadMessage: a throw of sendFriendMessage is
\* logged and goes no further; the call returns and the cycle ends.
NoticeFailed_Rethrown(p, c) ==
  Catch(p, c, dl[p][c], dl[p][c].row, "sendFriendMessage failed")

NoticeFailed(p, c) == EndCycle(p, c) /\ UNCHANGED retryAfterByMatchId

\* await sendDownloadMessage(row.user_steam_id, row.id), the last statement
\* of the try block: nothing is sent to a user that cannot be messaged, the
\* message goes out, or sendFriendMessage throws.
sendDownloadMessage(p, c, j) ==
  IF canMessageUser(p, jobs[j].user_id)
    THEN \/ /\ chat' = chat \cup {DownloadNotice(j)}
            /\ EndCycle(p, c)
            /\ UNCHANGED retryAfterByMatchId
         \/ /\ chat' = chat
            /\ NoticeFailed(p, c)
    ELSE /\ chat' = chat
         /\ EndCycle(p, c)
         /\ UNCHANGED retryAfterByMatchId

\* --------------------------------------- processPending: status writes

\* await markPending(row.id); return;  (cooling down, or no replay URL)
MarkPendingDone(p, c) ==
  /\ dl[p][c].pc = "markPending"
  /\ CanUpdate(dl[p][c].row)
  /\ jobs' = markPending(dl[p][c].row)
  /\ EndCycle(p, c)
  /\ UNCHANGED <<msgVars, chat, files, clockVars, intervals, gcReady, downloadPollerStarted,
                 retryAfterByMatchId, gcVars>>

MarkPendingFail(p, c) ==
  /\ dl[p][c].pc = "markPending"
  /\ Catch(p, c, dl[p][c], dl[p][c].row, "markPending failed")
  /\ UNCHANGED <<msgVars, chat, dbVars, clockVars, intervals, gcReady, downloadPollerStarted, gcVars>>

\* await markDownloaded(row.id, outputFile); the cycle ends.
MarkDownloadedDone(p, c) ==
  /\ dl[p][c].pc = "markDownloaded"
  /\ CanUpdate(dl[p][c].row)
  /\ jobs' = markDownloaded(dl[p][c].row, MatchFile(dl[p][c].row))
  /\ sendDownloadMessage(p, c, dl[p][c].row)
  /\ UNCHANGED <<msgVars, files, clockVars, intervals, gcReady, downloadPollerStarted, gcVars>>

MarkDownloadedFail_Notified(p, c) ==
  /\ dl[p][c].pc = "markDownloaded"
  /\ chat' = chat \cup {DownloadNotice(dl[p][c].row)}
  /\ Catch(p, c, dl[p][c], dl[p][c].row, "markDownloaded failed")
  /\ UNCHANGED <<msgVars, dbVars, clockVars, intervals, gcReady, downloadPollerStarted, gcVars>>

MarkDownloadedFail(p, c) ==
  /\ dl[p][c].pc = "markDownloaded"
  /\ Catch(p, c, dl[p][c], dl[p][c].row, "markDownloaded failed")
  /\ UNCHANGED <<msgVars, chat, dbVars, clockVars, intervals, gcReady, downloadPollerStarted, gcVars>>

\* In the catch: await markPending(currentRow.id) after a repeated 502.
CatchPendingDone(p, c) ==
  /\ dl[p][c].pc = "catchPending"
  /\ CanUpdate(dl[p][c].row)
  /\ jobs' = markPending(dl[p][c].row)
  /\ EndCycle(p, c)
  /\ UNCHANGED <<msgVars, chat, files, clockVars, intervals, gcReady, downloadPollerStarted,
                 retryAfterByMatchId, gcVars>>

\* In the catch: await markError(currentRow.id).
CatchErrorDone(p, c) ==
  /\ dl[p][c].pc = "catchError"
  /\ CanUpdate(dl[p][c].row)
  /\ jobs' = markError(dl[p][c].row)
  /\ EndCycle(p, c)
  /\ UNCHANGED <<msgVars, chat, files, clockVars, intervals, gcReady, downloadPollerStarted,
                 retryAfterByMatchId, gcVars>>

\* In the catch the status write throws: catch (markErrorErr), logged.
CatchWriteFail(p, c) ==
  /\ dl[p][c].pc \in {"catchPending", "catchError"}
  /\ EndCycle(p, c)
  /\ UNCHANGED <<msgVars, chat, dbVars, clockVars, intervals, gcReady, downloadPollerStarted,
                 retryAfterByMatchId, gcVars>>

\* ------------------------------------------------- sendPendingMessages
\* fetchPendingTips: the rows to notify, in id order.
TipRows == {j \in Ids : /\ jobs[j].status \in {"processed", "parsed"}
                        /\ jobs[j].coach_tip # NULL
                        /\ ~jobs[j].tip_sent}

RECURSIVE SortAsc(_)
SortAsc(S) == IF S = {} THEN <<>> ELSE <<Min(S)>> \o SortAsc(S \ {Min(S)})

fetchPendingTips == SortAsc(TipRows)

markTipSent_Batch(matchId) ==
  [j \in Ids |-> IF j \in TipRows
                   THEN [jobs[j] EXCEPT !.status = "notified", !.tip_sent = TRUE]
                   ELSE jobs[j]]

markTipSent(matchId) ==
  [jobs EXCEPT ![matchId].status = "notified", ![matchId].tip_sent = TRUE]

SetTips(p, c, r) == tips' = [tips EXCEPT ![p][c] = r]

IdleTipSlots(p) == {c \in Slots : tips[p][c].pc = "idle"}

CanStartTips_NoGuard(p) == steamReady[p]

\* if (isSendingTips || !steamReady) return;
CanStartTips(p) == ~isSendingTips[p] /\ steamReady[p]

\* A call of sendPendingMessages up to its first await.
StartTips(p) ==
  \E c \in IdleTipSlots(p) :
    /\ c = Min(IdleTipSlots(p))
    /\ isSendingTips' = [isSendingTips EXCEPT ![p] = TRUE]
    /\ SetTips(p, c, [IdleTips EXCEPT !.pc = "fetchPendingTips"])

\* The finally block, leaving behind the rows the loop did not reach.
EndTips(p, c, left) ==
  /\ isSendingTips' = [isSendingTips EXCEPT ![p] = FALSE]
  /\ SetTips(p, c, [IdleTips EXCEPT !.unvisited = left])

\* The rows at positions from..to of a batch.
RowsAt(rows, from, to) == {rows[i] : i \in {m \in from..to : m <= Len(rows)}}

\* The position at which the loop goes on after the row at idx has failed:
\* the try/catch is inside the loop body, the next row follows.
NextRow_Break(rows, idx) == Len(rows) + 1

NextRow(rows, idx) == idx + 1

\* The for loop from row k to its next await or its end: rows whose user
\* cannot be messaged are skipped, a send that throws is logged, and the
\* first send that goes through is followed by await markTipSent.
TipsLoop(p, c, rows, k, unvisited) ==
  \/ /\ EndTips(p, c, unvisited \ RowsAt(rows, k, Len(rows)))
     /\ chat' = chat
  \/ \E n \in k..Len(rows) :
       /\ canMessageUser(p, jobs[rows[n]].user_id)
       /\ chat' = chat \cup {TipMessage(rows[n])}
       /\ SetTips(p, c, [pc |-> "markTipSent", rows |-> rows, idx |-> n,
                         unvisited |-> unvisited \ RowsAt(rows, k, n)])
       /\ UNCHANGED isSendingTips

TipsFetched(p, c) ==
  /\ tips[p][c].pc = "fetchPendingTips"
  /\ TipsLoop(p, c, fetchPendingTips, 1, TipRows)
  /\ UNCHANGED <<dbVars, clockVars, intervals, procVars, gcVars, dl, steamReady,
                 friendsReady, messagePollerStarted, myFriends>>

TipsFetchFail(p, c) ==
  /\ tips[p][c].pc = "fetchPendingTips"
  /\ EndTips(p, c, {})
  /\ UNCHANGED <<dbVars, clockVars, intervals, procVars, gcVars, dl, steamReady,
                 friendsReady, messagePollerStarted, myFriends, chat>>

MarkTipSentDone(p, c) ==
  /\ tips[p][c].pc = "markTipSent"
  /\ CanUpdate(tips[p][c].rows[tips[p][c].idx])
  /\ jobs' = markTipSent(tips[p][c].rows[tips[p][c].idx])
  /\ TipsLoop(p, c, tips[p][c].rows, tips[p][c].idx + 1, tips[p][c].unvisited)
  /\ UNCHANGED <<files, clockVars, intervals, procVars, gcVars, dl, steamReady,
                 friendsReady, messagePollerStarted, myFriends>>

\* markTipSent throws: caught and logged inside the loop body.
MarkTipSentFail(p, c) ==
  /\ tips[p][c].pc = "markTipSent"
  /\ TipsLoop(p, c, tips[p][c].rows, NextRow(tips[p][c].rows, tips[p][c].idx),
              tips[p][c].unvisited)
  /\ UNCHANGED <<dbVars, clockVars, intervals, procVars, gcVars, dl, steamReady,
                 friendsReady, messagePollerStarted, myFriends>>

\* The interval timer of startMessagePolling fires.
MessageTick(p) ==
  /\ messagePollerStarted[p]
  /\ CanStartTips(p)
  /\ StartTips(p)
  /\ UNCHANGED <<dbVars, clockVars, intervals, procVars, gcVars, dl, steamReady,
                 friendsReady, messagePollerStarted, myFriends, chat>>

MessageTickSkip(p) ==
  /\ messagePollerStarted[p]
  /\ ~CanStartTips(p)
  /\ UNCHANGED vars

\* client.on("loggedOn")
LoggedOn(p) ==
  /\ steamReady' = [steamReady EXCEPT ![p] = TRUE]
  /\ UNCHANGED <<dbVars, clockVars, intervals, procVars, gcVars, dl, isSendingTips,
                 friendsReady, messagePollerStarted, myFriends, chat, tips>>

\* client.on("error")
SteamError(p) ==
  /\ steamReady' = [steamReady EXCEPT ![p] = FALSE]
  /\ UNCHANGED <<dbVars, clockVars, intervals, procVars, gcVars, dl, isSendingTips,
                 friendsReady, messagePollerStarted, myFriends, chat, tips>>

\* client.on("friendsList"): friendsReady = true, then startMessagePolling,
\* which installs the timer once and calls sendPendingMessages right away.
FriendsList(p) ==
  /\ friendsReady' = [friendsReady EXCEPT ![p] = TRUE]
  /\ messagePollerStarted' = [messagePollerStarted EXCEPT ![p] = TRUE]
  /\ intervals' = [intervals EXCEPT
                     ![p].message = setInterval(messagePollerStarted[p] \/ ~friendsReady'[p], @)]
  /\ IF ~messagePollerStarted[p] /\ CanStartTips(p)
       THEN StartTips(p)
       ELSE UNCHANGED <<isSendingTips, tips>>
  /\ UNCHANGED <<dbVars, clockVars, procVars, gcVars, dl, steamReady,
                 myFriends, chat>>

\* client.on("friendRelationship"): the client library has updated
\* myFriends; the handler itself only answers a friend request.
FriendRelationship(p, steamId, relationship) ==
  /\ myFriends[p][steamId] # relationship
  /\ myFriends' = [myFriends EXCEPT ![p][steamId] = relationship]
  /\ UNCHANGED <<dbVars, clockVars, intervals, procVars, gcVars, dl, isSendingTips,
                 steamReady, friendsReady, messagePollerStarted, chat, tips>>

\* The analysis stage, outside this program: a downloaded replay is parsed
\* and may get a coach tip.
Analyse(j) ==
  /\ jobs[j].status = "downloaded"
  /\ jobs[j].lock = NoLock
  /\ \E s \in {"processed", "parsed"}, tip \in {NULL, "tip"} :
       jobs' = [jobs EXCEPT ![j].status = s, ![j].coach_tip = tip]
  /\ UNCHANGED <<files, clockVars, intervals, procVars, gcVars, dl, msgVars, chat>>

\* ---------------------------------------------------- specifications

CycleStep(p, c) ==
  \/ TxBegin(p, c) \/ TxSelect(p, c) \/ TxCommitEmpty(p, c) \/ TxUpdate(p, c)
  \/ TxFail(p, c) \/ TxRollback(p, c)
  \/ ClaimCooldown(p, c) \/ ClaimRequest(p, c) \/ ClaimRequestThrows(p, c)
  \/ GcTimeout(p, c)
  \/ Mkdir(p, c) \/ MkdirFail(p, c)
  \/ FetchOk(p, c) \/ FetchStatus(p, c) \/ FetchThrows(p, c)
  \/ AbortTimer(p, c)
  \/ PipelineOk(p, c) \/ PipelineFails(p, c) \/ RmDone(p, c) \/ RmFail(p, c)
  \/ Sleep(p, c)
  \/ MarkPendingDone(p, c) \/ MarkPendingFail(p, c)
  \/ MarkDownloadedDone(p, c) \/ MarkDownloadedFail(p, c)
  \/ CatchPendingDone(p, c) \/ CatchErrorDone(p, c) \/ CatchWriteFail(p, c)

ProcStep(p) ==
  \/ Tick(p) \/ TickSkip(p) \/ ConnectedToGC(p) \/ DisconnectedFromGC(p)
  \/ GcMatchList(p)
  \/ \E c \in Slots : CycleStep(p, c)

\* One worker process.
Next == CreateJob \/ Elapse \/ ProcStep(1)

Spec == Init /\ [][Next]_vars

\* One worker process whose own steps are taken whenever they stay possible:
\* a statement of the database settles, a timer that is armed fires (the
\* coordinator wait's, the attempt's abort timer, a sleep), mkdir and rm
\* return. Nothing is assumed of the coordinator and the replay server: a
\* response, a status, a broken connection or the end of the body may never
\* come.
Settles(p, c) ==
  \/ TxBegin(p, c) \/ TxSelect(p, c) \/ TxCommitEmpty(p, c) \/ TxUpdate(p, c)
  \/ TxFail(p, c) \/ TxRollback(p, c)
  \/ ClaimCooldown(p, c) \/ ClaimRequest(p, c) \/ ClaimRequestThrows(p, c)
  \/ GcTimeout(p, c)
  \/ Mkdir(p, c) \/ MkdirFail(p, c)
  \/ AbortTimer(p, c)
  \/ RmDone(p, c) \/ RmFail(p, c)
  \/ Sleep(p, c)
  \/ MarkPendingDone(p, c) \/ MarkPendingFail(p, c)
  \/ MarkDownloadedDone(p, c) \/ MarkDownloadedFail(p, c)
  \/ CatchPendingDone(p, c) \/ CatchErrorDone(p, c) \/ CatchWriteFail(p, c)

NextLive == CreateJob \/ ProcStep(1)

SpecLive ==
  /\ Init
  /\ [][NextLive]_vars
  /\ \A c \in Slots : WF_vars(Settles(1, c))

\* One worker process that keeps ticking while the coordinator stays
\* reachable and answers every lookup in time, with a database, a file
\* system and a replay server that do not fail: the timer of the download
\* line fires again and again, every statement and request comes to an end
\* and every download succeeds. What a response holds is left open.
TickingCycleStep(p, c) ==
  \/ TxBegin(p, c) \/ TxSelect(p, c) \/ TxCommitEmpty(p, c) \/ TxUpdate(p, c)
  \/ ClaimRequest(p, c)
  \/ Mkdir(p, c) \/ FetchOk(p, c) \/ PipelineOk(p, c)
  \/ MarkPendingDone(p, c) \/ MarkDownloadedDone(p, c)

NextTicking ==
  \/ CreateJob
  \/ Tick(1) \/ ConnectedToGC(1) \/ GcMatchList(1)
  \/ \E c \in Slots : TickingCycleStep(1, c)

SpecTicking ==
  /\ Init
  /\ [][NextTicking]_vars
  /\ WF_vars(ConnectedToGC(1))
  /\ WF_vars(Tick(1))
  /\ WF_vars(GcMatchList(1))
  /\ \A c \in Slots : WF_vars(TickingCycleStep(1, c))

\* The worker process stops in the middle of a cycle that has claimed its
\* job, and is started again: its connections are closed, which rolls back
\* what its open transactions hold, and the script is loaded anew, so every
\* module variable has its initial value. The job store, the files and the
\* messages sent stay as they are.
Restart(p) ==
  /\ \E c \in Slots : dl[p][c].row # 0 /\ jobs[dl[p][c].row].status = "processing"
  /\ jobs' = [j \in Ids |->
               IF jobs[j].lock # NoLock /\ jobs[j].lock[1] = p
                 THEN [jobs[j] EXCEPT !.lock = NoLock]
                 ELSE jobs[j]]
  /\ isProcessing' = [isProcessing EXCEPT ![p] = FALSE]
  /\ gcReady' = [gcReady EXCEPT ![p] = FALSE]
  /\ downloadPollerStarted' = [downloadPollerStarted EXCEPT ![p] = FALSE]
  /\ retryAfterByMatchId' = [retryAfterByMatchId EXCEPT ![p] = [j \in 1..MaxJobs |-> 0]]
  /\ listeners' = [listeners EXCEPT ![p] = {}]
  /\ gcInbox' = [gcInbox EXCEPT ![p] = {}]
  /\ dl' = [dl EXCEPT ![p] = [c \in Slots |-> IdleCycle]]
  /\ isSendingTips' = [isSendingTips EXCEPT ![p] = FALSE]
  /\ steamReady' = [steamReady EXCEPT ![p] = FALSE]
  /\ friendsReady' = [friendsReady EXCEPT ![p] = FALSE]
  /\ messagePollerStarted' = [messagePollerStarted EXCEPT ![p] = FALSE]
  /\ myFriends' = [myFriends EXCEPT ![p] = [u \in UserSet |-> "undefined"]]
  /\ tips' = [tips EXCEPT ![p] = [c \in Slots |-> IdleTips]]
  /\ intervals' = [intervals EXCEPT ![p] = NoIntervals]
  /\ UNCHANGED <<files, clockVars, chat>>

\* The ticking worker, which may stop and be started again; after a start
\* it connects to the coordinator and ticks as before.
NextRestart == NextTicking \/ Restart(1)

SpecRestart ==
  /\ Init
  /\ [][NextRestart]_vars
  /\ WF_vars(ConnectedToGC(1))
  /\ WF_vars(Tick(1))
  /\ WF_vars(GcMatchList(1))
  /\ \A c \in Slots : WF_vars(TickingCycleStep(1, c))

\* Several worker processes against the same job store, each connected to
\* the coordinator, with downloads that succeed at the first attempt: every
\* outcome of a cycle (requeued, downloaded, error, a failed status write)
\* occurs, the retries and the cooldown do not.
WorkerCycleStep(p, c) ==
  \/ TxBegin(p, c) \/ TxSelect(p, c) \/ TxCommitEmpty(p, c) \/ TxUpdate(p, c)
  \/ TxFail(p, c) \/ TxRollback(p, c)
  \/ ClaimRequest(p, c) \/ ClaimRequestThrows(p, c) \/ GcTimeout(p, c)
  \/ Mkdir(p, c) \/ FetchOk(p, c) \/ PipelineOk(p, c)
  \/ MarkPendingDone(p, c) \/ MarkPendingFail(p, c)
  \/ MarkDownloadedDone(p, c) \/ MarkDownloadedFail(p, c)
  \/ CatchErrorDone(p, c) \/ CatchWriteFail(p, c)

WorkerStep(p) ==
  \/ Tick(p) \/ TickSkip(p) \/ ConnectedToGC(p) \/ DisconnectedFromGC(p)
  \/ GcMatchList(p)
  \/ \E c \in Slots : WorkerCycleStep(p, c)

NextWorkers == CreateJob \/ \E p \in Procs : WorkerStep(p)

SpecWorkers == Init /\ [][NextWorkers]_vars

\* ----------------------------------------------- responses to resolve
\* A field that is there or not.
Opt(present, k, n) == IF present THEN <<Field(k, n)>> ELSE <<>>

Undefined == Value("undefined", "", 0, <<>>)

\* A response object that holds any of the sources of a URL: the five
\* direct fields, the map of the last round, the data of the derived URL,
\* and a string that only the search finds.
Sources == {"match", "matches.match", "matches", "top", "zero", "map",
            "derived", "deep"}

SourcesBody(S) ==
  <<Obj(Opt("zero" \in S, "0", 2) \o Opt("match" \in S, "match", 3)
          \o Opt("matches.match" \in S \/ "matches" \in S, "matches", 5)
          \o Opt("top" \in S, "replay_url", 10)
          \o Opt("map" \in S \/ "derived" \in S, "round_stats_all", 11)
          \o Opt("derived" \in S, "watchablematchinfo", 15)
          \o Opt("deep" \in S, "extra", 18)),
    Obj(<<Field("replay_url", 20)>>),
    Obj(<<Field("replay_url", 4)>>),
    Str("http://host/match.dem"),
    Arr(<<6>>),
    Obj(Opt("matches.match" \in S, "match", 7) \o Opt("matches" \in S, "replay_url", 9)),
    Obj(<<Field("replay_url", 8)>>),
    Str("http://host/matches0match.dem"),
    Str("http://host/matches0.dem"),
    Str("http://replay9.valve.net/730/top.dem.bz2"),
    Arr(<<12, 13>>),
    Obj(<<>>),
    Obj(Opt("derived" \in S, "reservationid", 14) \o Opt("map" \in S, "map", 21)),
    Str("3456789012345678901"),
    Obj(<<Field("server_ip", 16), Field("tv_port", 17)>>),
    Num(135),
    Num(27015),
    Obj(<<Field("a", 19)>>),
    Str("http://cdn/deep.dem.bz2"),
    Str("http://host/zero.dem"),
    Str("http://host/lastround.dem")>>

\* A response array whose match has, or lacks, the three values of the
\* derived URL, the reservation id in the first round, the last or both.
ServerIps == {Undefined, Num(0), Num(135)}
TvPorts == {Undefined, JsNull, Num(0), Num(27015)}
ReservationIds ==
  {Undefined, Num(0), Num(42), Str(""), Str("42"),
   Str("18446744073709551615"), Str("123456789012345678901"),
   Str("1234567890123456789012")}

DerivedBody(ip, port, rid, rounds) ==
  <<Arr(<<2>>),
    Obj(<<Field("watchablematchinfo", 3), Field("round_stats_all", 6)>>),
    Obj(Opt(ip # Undefined, "server_ip", 4) \o Opt(port # Undefined, "tv_port", 5)),
    ip,
    port,
    Arr(<<7, 8>>),
    Obj(Opt(rid # Undefined /\ rounds \in {"first", "both"}, "reservationid", 9)),
    Obj(Opt(rid # Undefined /\ rounds \in {"last", "both"}, "reservationid", 9)),
    rid>>

\* A response with a string at depth d at the end of two chains of objects
\* and arrays (d = 0: no second chain), and a field that holds the response
\* itself, before the chains or after them.
MaxChain == 8

ChainNode(k, d, base, str) ==
  IF k < d
    THEN IF k % 2 = 1 THEN Obj(<<Field("x", base + k + 1)>>) ELSE Arr(<<base + k + 1>>)
    ELSE IF k = d THEN Str(str) ELSE JsNull

Chain(d, base, str) == [k \in 1..MaxChain |-> ChainNode(k, d, base, str)]

ChainsBody(d1, str, d2, self) ==
  <<Obj(Opt(self = "first", "self", 1) \o <<Field("a", 2)>>
          \o Opt(d2 > 0, "b", 2 + MaxChain) \o Opt(self = "last", "self", 1))>>
    \o Chain(d1, 1, str) \o Chain(d2, 1 + MaxChain, "http://b/2.dem.bz2")

Responses ==
  {SourcesBody(S) : S \in SUBSET Sources}
    \cup {DerivedBody(ip, port, rid, rounds) :
            ip \in ServerIps, port \in TvPorts, rid \in ReservationIds,
            rounds \in {"first", "last", "both"}}
    \cup {ChainsBody(d1, str, d2, self) :
            d1 \in 1..MaxChain, str \in {"http://a/1.dem.bz2", "de_dust2"},
            d2 \in 0..MaxChain, self \in {"none", "first", "last"}}
    \cup {<<JsNull>>, <<Num(7)>>, <<Str("http://replay1.valve.net/730/1.dem.bz2")>>}

\* A worker that has claimed a job and awaits the coordinator's response.
InitResolver ==
  /\ jobs = <<[user_id |-> Users[1], share_code |-> ShareCodes[1],
               status |-> "processing", file_path |-> <<>>, coach_tip |-> NULL,
               tip_sent |-> FALSE, lock |-> NoLock]>>
  /\ files = [j \in 1..MaxJobs |-> "absent"]
  /\ now = 1
  /\ elapsed = 0
  /\ isProcessing = [p \in Procs |-> p = 1]
  /\ gcReady = [p \in Procs |-> p = 1]
  /\ downloadPollerStarted = [p \in Procs |-> p = 1]
  /\ retryAfterByMatchId = [p \in Procs |-> [j \in 1..MaxJobs |-> 0]]
  /\ listeners = [p \in Procs |-> IF p = 1 THEN {1} ELSE {}]
  /\ gcInbox = [p \in Procs |-> IF p = 1 THEN {ShareCodes[1]} ELSE {}]
  /\ dl = [p \in Procs |-> [c \in Slots |->
             IF p = 1 /\ c = 1
               THEN [IdleCycle EXCEPT !.pc = "await", !.row = 1, !.handler = 1,
                                      !.timeout = TRUE]
               ELSE IdleCycle]]
  /\ isSendingTips = [p \in Procs |-> FALSE]
  /\ steamReady = [p \in Procs |-> FALSE]
  /\ friendsReady = [p \in Procs |-> FALSE]
  /\ messagePollerStarted = [p \in Procs |-> FALSE]
  /\ myFriends = [p \in Procs |-> [u \in UserSet |-> "undefined"]]
  /\ chat = {}
  /\ tips = [p \in Procs |-> [c \in Slots |-> IdleTips]]
  /\ intervals = [p \in Procs |->
                    IF p = 1 THEN [NoIntervals EXCEPT !.download = 1] ELSE NoIntervals]

\* The coordinator answers with any of these responses and the handler
\* resolves the URL.
NextResolver == Emit(1, Responses)

SpecResolver == InitResolver /\ [][NextResolver]_vars

\* One such worker, with users befriending and blocking the bot while their
\* replays are downloaded.
NextNotice ==
  \/ CreateJob
  \/ WorkerStep(1)
  \/ \E u \in UserSet, r \in {"Friend", "Blocked"} : FriendRelationship(1, u, r)

SpecNotice == Init /\ [][NextNotice]_vars

\* One process with both lines running, the analysis stage moving downloaded
\* jobs on, and users becoming friends of the bot. The clock stands still:
\* a cooldown, once set, is in force whenever its job is claimed again. Of
\* the failures of a download the HTTP statuses are kept, which lead to every
\* outcome (a retry, a requeue with cooldown, error); fetch and the pipeline
\* do not throw.
LinesCycleStep(p, c) ==
  \/ TxBegin(p, c) \/ TxSelect(p, c) \/ TxCommitEmpty(p, c) \/ TxUpdate(p, c)
  \/ TxFail(p, c) \/ TxRollback(p, c)
  \/ ClaimCooldown(p, c) \/ ClaimRequest(p, c) \/ ClaimRequestThrows(p, c)
  \/ GcTimeout(p, c)
  \/ Mkdir(p, c) \/ FetchOk(p, c) \/ FetchStatus(p, c) \/ PipelineOk(p, c)
  \/ Sleep(p, c)
  \/ MarkPendingDone(p, c) \/ MarkPendingFail(p, c)
  \/ MarkDownloadedDone(p, c) \/ MarkDownloadedFail(p, c)
  \/ CatchPendingDone(p, c) \/ CatchErrorDone(p, c) \/ CatchWriteFail(p, c)

LinesStep(p) ==
  \/ Tick(p) \/ TickSkip(p) \/ ConnectedToGC(p) \/ DisconnectedFromGC(p)
  \/ GcMatchList(p)
  \/ \E c \in Slots : LinesCycleStep(p, c)

TipsStep(p, c) ==
  \/ TipsFetched(p, c) \/ TipsFetchFail(p, c)
  \/ MarkTipSentDone(p, c) \/ MarkTipSentFail(p, c)

SteamStep(p) ==
  \/ LoggedOn(p) \/ SteamError(p) \/ FriendsList(p)
  \/ MessageTick(p) \/ MessageTickSkip(p)
  \/ \E u \in UserSet : FriendRelationship(p, u, "Friend")
  \/ \E c \in Slots : TipsStep(p, c)

\* The notification line of one process, started against a store of
\* downloaded jobs which the analysis stage moves on, with users entering
\* and leaving every relationship that matters to canMessageUser.
NotifyStep(p) ==
  \/ LoggedOn(p) \/ SteamError(p) \/ FriendsList(p)
  \/ MessageTick(p) \/ MessageTickSkip(p)
  \/ \E u \in UserSet, r \in {"None", "Blocked", "Friend", "Ignored"} :
       FriendRelationship(p, u, r)
  \/ \E c \in Slots : TipsStep(p, c)

NextNotify == (\E j \in Ids : Analyse(j)) \/ NotifyStep(1)

SpecNotify == InitNotify /\ [][NextNotify]_vars

NextLines ==
  \/ CreateJob
  \/ \E j \in Ids : Analyse(j)
  \/ LinesStep(1)
  \/ SteamStep(1)

SpecLines == Init /\ [][NextLines]_vars

\* One process with both lines running and both gates opening and closing,
\* with downloads that succeed at the first attempt, the analysis stage
\* moving downloaded jobs on, and users becoming friends of the bot.
NextGates ==
  \/ CreateJob
  \/ \E j \in Ids : Analyse(j)
  \/ WorkerStep(1)
  \/ SteamStep(1)

SpecGates == Init /\ [][NextGates]_vars

\* The three status updates applied, in any order and any number of times,
\* to the rows of a store of pending and claimed jobs of one user or two;
\* markDownloaded is given the path of any job's file.
InitMarks ==
  /\ \E u \in UserSet, s1, s2 \in {"pending", "processing"} :
       jobs = <<[user_id |-> Users[1], share_code |-> ShareCodes[1], status |-> s1,
                 file_path |-> <<>>, coach_tip |-> NULL, tip_sent |-> FALSE,
                 lock |-> NoLock],
                [user_id |-> u, share_code |-> ShareCodes[2], status |-> s2,
                 file_path |-> <<>>, coach_tip |-> NULL, tip_sent |-> FALSE,
                 lock |-> NoLock]>>
  /\ files = [j \in 1..MaxJobs |-> "absent"]
  /\ Startup

UpdateRow(id) ==
  /\ CanUpdate(id)
  /\ \/ \E k \in Ids : jobs' = markDownloaded(id, MatchFile(k))
     \/ jobs' = markError(id)
     \/ jobs' = markPending(id)
  /\ UNCHANGED <<msgVars, chat, files, clockVars, intervals, procVars, gcVars, dl>>

NextMarks == \E id \in Ids : UpdateRow(id)

SpecMarks == InitMarks /\ [][NextMarks]_vars

\* ------------------------------------------------------------ claims

\* The activation holds a row: from the locking select that returned it
\* until its cycle writes the row's final status.
HasRow(p, c) == dl[p][c].row # 0

\* The claim of the activation is committed and the cycle has not yet
\* written the job's status.
Claimed(p, c) == HasRow(p, c) /\ dl[p][c].pc \notin {"update", "commit", "rollback"}

SameUser(i, k) == jobs[i].user_id = jobs[k].user_id

\* C1: over any interleaving of the claims of several workers, no job is
\* held by two activations at once: the rows two in-flight or finished
\* claims returned are different, and a claimed job is in processing.
C1_NoDoubleClaim ==
  \A p \in Procs, q \in Procs, c \in Slots, d \in Slots :
    /\ (<<p, c>> # <<q, d>> /\ HasRow(p, c) /\ HasRow(q, d))
         => dl[p][c].row # dl[q][d].row
    /\ Claimed(p, c) => jobs[dl[p][c].row].status = "processing"

\* Two workers are inside their claim transactions at the same time, each
\* with its own locked row.
C1_Witness ==
  \E p \in Procs, q \in Procs, c \in Slots, d \in Slots :
    /\ p # q
    /\ dl[p][c].pc = "update" /\ dl[q][d].pc = "update"
    /\ jobs[dl[p][c].row].lock = <<p, c>>
    /\ jobs[dl[q][d].row].lock = <<q, d>>

\* C2: in every reachable state, each user has at most one job in
\* processing.
C2_OneProcessingPerUser ==
  \A i \in Ids, k \in Ids :
    (i # k /\ SameUser(i, k)) =>
      ~(jobs[i].status = "processing" /\ jobs[k].status = "processing")

PendingOfUser(u) == {i \in Ids : jobs[i].user_id = u /\ jobs[i].status = "pending"}

\* C3: the row a claim's select returns is the highest-id pending job of its
\* user, and the commit of the claim moves that row from pending to
\* processing and changes no other row.
C3_ClaimsHighestPending ==
  [][\A p \in Procs, c \in Slots :
       /\ (dl[p][c].pc = "select" /\ dl'[p][c].pc = "update")
            => dl'[p][c].row = Max(PendingOfUser(jobs[dl'[p][c].row].user_id))
       /\ (dl[p][c].pc = "commit" /\ dl'[p][c].pc \notin {"commit", "rollback"})
            => /\ jobs[dl[p][c].row].status = "pending"
               /\ jobs'[dl[p][c].row].status = "processing"
               /\ \A i \in Ids : i # dl[p][c].row => jobs'[i] = jobs[i]]_vars

\* A user has two jobs; the higher one has just been claimed and the lower
\* one is still pending.
C3_Witness ==
  \E p \in Procs, c \in Slots, i \in Ids :
    /\ Claimed(p, c)
    /\ i < dl[p][c].row
    /\ SameUser(i, dl[p][c].row)
    /\ jobs[i].status = "pending"
    /\ jobs[dl[p][c].row].status = "processing"

\* A pending job no transaction has locked, all of whose user's newer jobs
\* have left the queue (downloaded or error), and there is such a newer job.
OlderPendingLeft(i) ==
  /\ jobs[i].status = "pending"
  /\ jobs[i].lock = NoLock
  /\ \E k \in Ids : k > i /\ SameUser(i, k)
  /\ \A k \in Ids : (k > i /\ SameUser(i, k)) => jobs[k].status \in {"downloaded", "error"}

\* C4: an older pending job is not dropped: once its user's newer job is
\* downloaded or error, a claim does not come back empty while the older job
\* is pending.
C4_OlderPendingClaimed ==
  [][\A p \in Procs, c \in Slots :
       (dl[p][c].pc = "select" /\ dl'[p][c].pc = "commitEmpty")
         => ~ \E i \in Ids : OlderPendingLeft(i)]_vars

\* C6: when a step of the claim fails, the rollback leaves every job's
\* status as it was, releases the claim's lock, and the download cycle ends
\* there: the guard flag is released and nothing else is written.
C6_FailedClaimChangesNothing ==
  [][\A p \in Procs, c \in Slots :
       (dl[p][c].pc = "rollback" /\ dl'[p][c].pc # "rollback")
         => /\ \A i \in Ids : jobs'[i].status = jobs[i].status
            /\ \A i \in Ids : jobs'[i].lock # <<p, c>>
            /\ dl'[p][c] = IdleCycle
            /\ ~isProcessing'[p]
            /\ UNCHANGED <<files, retryAfterByMatchId, listeners, gcInbox>>]_vars

\* A claim has failed after its select locked a pending row: the ROLLBACK is
\* awaited.
C6_Witness ==
  \E p \in Procs, c \in Slots :
    /\ dl[p][c].pc = "rollback"
    /\ HasRow(p, c)
    /\ jobs[dl[p][c].row].lock = <<p, c>>
    /\ jobs[dl[p][c].row].status = "pending"

TimedOut(p, c) == dl[p][c].err = "Timed out waiting for matchList"

\* C7: after a requestMatch call has timed out, the listener it attached is
\* no longer attached to the coordinator's matchList event.
C7_TimeoutDetachesListener ==
  \A p \in Procs, c \in Slots :
    TimedOut(p, c) => dl[p][c].handler \notin listeners[p]

\* C8: a requestMatch call that resolves returns the response to its own
\* request: the matchList a cycle works on answers the share code of the
\* cycle's row.
C8_OwnResponse ==
  \A p \in Procs, c \in Slots :
    dl[p][c].matchList # NoMatchList
      => dl[p][c].matchList.for = jobs[dl[p][c].row].share_code

SendThrew(p, c) == dl[p][c].err = "requestGame failed"

\* C9: when requestGame throws, the call fails with that error, and from
\* then on its listener is detached and its timer cancelled.
C9_SendThrowCleansUp ==
  \A p \in Procs, c \in Slots :
    SendThrew(p, c)
      => /\ dl[p][c].pc = "catchError"
         /\ dl[p][c].handler \notin listeners[p]
         /\ ~dl[p][c].timeout

\* requestGame threw while a listener of an earlier, timed-out call was
\* still attached.
C9_Witness ==
  \E p \in Procs, c \in Slots : SendThrew(p, c) /\ listeners[p] # {}

Awaiting(p) == {c \in Slots : dl[p][c].pc = "await"}

\* C10: within one process at most one requestMatch call is outstanding.
C10_SingleInFlight ==
  \A p \in Procs : Cardinality(Awaiting(p)) <= 1

\* A requestMatch call is outstanding while the poller runs, the coordinator
\* is reachable and another job could be claimed: only the guard flag keeps
\* the next tick from starting a second call.
C10_Witness ==
  \E p \in Procs :
    /\ Awaiting(p) # {}
    /\ downloadPollerStarted[p] /\ gcReady[p]
    /\ Lockable(PendingCandidates) # {}

\* C5: every change of a job's status made by the program follows an edge of
\* the status graph: pending -> processing, processing -> pending,
\* downloaded or error, and processed or parsed -> notified. In particular
\* downloaded, error and pending are only ever written to a processing job,
\* and nothing is moved out of downloaded, error or notified. The one other
\* writer is the analysis stage.
CoreEdges ==
  {<<"pending", "processing">>, <<"processing", "pending">>,
   <<"processing", "downloaded">>, <<"processing", "error">>,
   <<"processed", "notified">>, <<"parsed", "notified">>}

C5_StatusEdges ==
  [][\A j \in Ids :
       jobs'[j].status # jobs[j].status =>
         \/ Analyse(j)
         \/ <<jobs[j].status, jobs'[j].status>> \in CoreEdges]_vars

\* Both lines have written: one job went all the way to notified, another
\* one was requeued after its download kept answering 502.
C5_Witness ==
  \E i, j \in Ids :
    /\ jobs[i].status = "notified"
    /\ jobs[j].status = "pending"
    /\ \E p \in Procs : retryAfterByMatchId[p][j] > 0

\* The cycle's activation is over after this step.
CycleEnds(p, c) == dl[p][c].pc # "idle" /\ dl'[p][c].pc = "idle"

ActiveCycles(p) == {c \in Slots : dl[p][c].pc # "idle"}
ActiveTips(p) == {c \in Slots : tips[p][c].pc # "idle"}

\* C12: in each process each line runs at most one cycle at a time, and
\* while the line's guard flag is held no step starts another one: a tick
\* that finds the flag held starts nothing, and when the running cycle ends
\* no skipped tick is made up for.
C12_OneCyclePerLine ==
  [][\A p \in Procs :
       /\ Cardinality(ActiveCycles(p)') <= 1
       /\ Cardinality(ActiveTips(p)') <= 1
       /\ isProcessing[p] => ActiveCycles(p)' \subseteq ActiveCycles(p)
       /\ isSendingTips[p] => ActiveTips(p)' \subseteq ActiveTips(p)]_vars

\* Both lines of a process are in a cycle, with both timers installed and
\* both gates open: a tick of either line finds only the guard flag in its
\* way.
C12_Witness ==
  \E p \in Procs :
    /\ ActiveCycles(p) # {} /\ ActiveTips(p) # {}
    /\ isProcessing[p] /\ isSendingTips[p]
    /\ downloadPollerStarted[p] /\ messagePollerStarted[p]
    /\ gcReady[p] /\ steamReady[p]

\* C13: a downloadReplay call makes at most 6 attempts; a sleep is only
\* started after attempts 1 to 5, the sleep after attempt n lasts 3000 * n
\* ms and is followed by attempt n + 1; a call that succeeds at attempt k
\* has slept k - 1 times.
C13_AttemptsAndWaits ==
  [][\A p \in Procs, c \in Slots :
       LET cur == dl[p][c]
           nxt == dl'[p][c]
       IN  /\ nxt.attempt <= 6
           /\ (nxt.attempt # cur.attempt /\ nxt.pc # "idle")
                => /\ nxt.attempt = cur.attempt + 1
                   /\ nxt.pc = "fetch"
                   /\ cur.attempt > 0 => cur.pc = "sleep"
           /\ (cur.pc # "sleep" /\ nxt.pc = "sleep")
                => /\ cur.attempt \in 1..5
                   /\ nxt.sleepMs = 3000 * cur.attempt
                   /\ nxt.waits = cur.attempt
           /\ (cur.pc = "sleep" /\ nxt.pc # "sleep")
                => /\ nxt.pc = "fetch"
                   /\ nxt.attempt = cur.attempt + 1
                   /\ cur.sleepMs = 3000 * cur.attempt
           /\ (cur.pc = "pipeline" /\ nxt.pc = "markDownloaded")
                => /\ cur.attempt \in 1..6
                   /\ cur.waits = cur.attempt - 1]_vars

\* A download has succeeded at its fourth attempt after three 502 responses
\* and three sleeps, the last of 9 s.
C13_Witness ==
  \E p \in Procs, c \in Slots :
    /\ dl[p][c].pc = "markDownloaded"
    /\ dl[p][c].attempt = 4
    /\ dl[p][c].waits = 3
    /\ dl[p][c].sleepMs = 9000
    /\ ~dl[p][c].non502
    /\ files[dl[p][c].row] = "complete"

\* The failures a retry may follow: an aborted (timed out) request, and the
\* signatures of a connection reset.
TransientErrors == {AbortError, SocketError, Terminated, OtherSideClosed}

\* downloadReplay is handling the outcome of an attempt.
Attempting(cur) == cur.pc \in {"fetch", "rm"}

\* C14: downloadReplay sleeps and retries only after an aborted request, a
\* transient connection error or a status of 502, 503 or 504; after any
\* other status or error the call fails at that attempt: the error reaches
\* the catch of processPending with no sleep and no further attempt.
C14_RetryOnlyTransient ==
  [][\A p \in Procs, c \in Slots :
       LET cur == dl[p][c]
           nxt == dl'[p][c]
       IN  /\ (cur.pc # "sleep" /\ nxt.pc = "sleep")
                => /\ Attempting(cur)
                   /\ \/ nxt.status \in {502, 503, 504}
                      \/ nxt.error \in TransientErrors
           /\ ( /\ Attempting(cur) /\ nxt.pc \notin {"fetch", "rm", "pipeline"}
                /\ nxt.status \notin {502, 503, 504}
                /\ nxt.error \notin TransientErrors )
                => /\ nxt.pc \in {"catchError", "catchPending"}
                   /\ nxt.attempt = cur.attempt
                   /\ nxt.waits = cur.waits]_vars

\* A first attempt was retried, the second one was answered 404: the call
\* has failed there, after the one sleep.
C14_Witness ==
  \E p \in Procs, c \in Slots :
    /\ dl[p][c].pc = "catchError"
    /\ dl[p][c].err = "Replay download failed: 404"
    /\ dl[p][c].attempt = 2
    /\ dl[p][c].waits = 1

\* The cycle is inside downloadReplay.
Downloading(cur) == cur.pc \in {"fetch", "pipeline", "rm", "sleep"}

SixthIs502(p, c) ==
  /\ dl[p][c].pc = "fetch" /\ dl[p][c].attempt = 6 /\ ~dl[p][c].non502
  /\ dl'[p][c].pc # "fetch" /\ dl'[p][c].status = 502

C17_CooldownOnlyAll502 ==
  [][\A p \in Procs, c \in Slots :
       LET cur == dl[p][c]
           nxt == dl'[p][c]
       IN  /\ (cur.pc # "catchPending" /\ nxt.pc = "catchPending")
                => nxt.attempt = 6 /\ ~nxt.non502
           /\ ( /\ Downloading(cur)
                /\ nxt.pc \in {"catchError", "catchPending"}
                /\ nxt.non502 )
                => /\ nxt.pc = "catchError"
                   /\ retryAfterByMatchId' = retryAfterByMatchId]_vars

\* The process holds a cooldown entry for the job whose deadline is ahead.
Unexpired(p, id) == retryAfterByMatchId[p][id] > now

\* The cycle has claimed a job that is cooling down and awaits markPending.
Reparking(cur) == cur.pc = "markPending" /\ cur.handler = 0

\* What a coordinator request or an HTTP request of the process would change.
Requests(p) == <<listeners[p], gcInbox[p], files>>

UrlMissed(cur) ==
  /\ cur.pc = "markPending"
  /\ cur.matchList # NoMatchList /\ cur.replayUrl = ""

C20_NoJobLeftProcessing ==
  [][\A p \in Procs, c \in Slots :
       (Claimed(p, c) /\ CycleEnds(p, c))
         => jobs'[dl[p][c].row].status # "processing"]_vars

\* ------------------------------------------------------------------
\* C21  Every download cycle terminates and releases its guard flag: the
\* coordinator wait and every HTTP attempt are bounded by a timeout, also
\* when the replay server stalls before the response headers or in the
\* middle of the response body.
C21_CycleTerminates ==
  \A p \in {1} : isProcessing[p] ~> ~isProcessing[p]

\* The part that holds: a cycle waiting for the coordinator or for the
\* response headers is always ended or moved on by its timer.
HeaderWaitsBounded ==
  \A p \in {1} : \A c \in Slots :
    dl[p][c].pc \in {"await", "fetch"}
      ~> dl[p][c].pc \notin {"await", "fetch"}

\* ------------------------------------------------------------------
\* The batch an activation of sendPendingMessages works on in a step, and
\* the rows its for loop reaches in that step: those from the row after the
\* one just handled to the row whose markTipSent is awaited next, or to the
\* end of the batch.
Batch(p, c) ==
  IF tips[p][c].pc = "fetchPendingTips" THEN fetchPendingTips ELSE tips[p][c].rows

Reached(p, c) ==
  IF tips[p][c].pc = "idle" \/ tips'[p][c] = tips[p][c]
    THEN {}
    ELSE RowsAt(Batch(p, c),
                IF tips[p][c].pc = "fetchPendingTips" THEN 1 ELSE tips[p][c].idx + 1,
                IF tips'[p][c].pc = "markTipSent"
                  THEN tips'[p][c].idx ELSE Len(Batch(p, c)))

\* The row whose send went through in this step.
SentTo(p, c, j) ==
  /\ j \in Reached(p, c)
  /\ tips'[p][c].pc = "markTipSent"
  /\ tips'[p][c].rows[tips'[p][c].idx] = j

NotContact == {"undefined", "None", "Blocked", "Ignored"}

\* C22  A job whose recipient is not a contact (relationship absent, None,
\* Blocked or Ignored) when the loop reaches it is passed over: no feedback
\* is sent for it, its row is not changed (tip_sent, status), and the loop
\* goes on without awaiting anything for it.
C22_NonContactSkipped ==
  [][\A p \in Procs : \A c \in Slots : \A j \in Reached(p, c) :
       myFriends[p][jobs[j].user_id] \in NotContact
         => /\ ~SentTo(p, c, j)
            /\ TipMessage(j) \in chat' => TipMessage(j) \in chat
            /\ jobs'[j] = jobs[j]]_vars

\* The loop has passed the first row of a batch of two, whose user has
\* blocked the bot, without a message or a change of the row, and has sent
\* the second.
C22_Witness ==
  \E p \in Procs : \E c \in Slots :
    /\ tips[p][c].pc = "markTipSent"
    /\ tips[p][c].idx = 2
    /\ myFriends[p][jobs[tips[p][c].rows[1]].user_id] = "Blocked"
    /\ myFriends[p][jobs[tips[p][c].rows[2]].user_id] = "Friend"
    /\ TipMessage(tips[p][c].rows[1]) \notin chat
    /\ ~jobs[tips[p][c].rows[1]].tip_sent
    /\ jobs[tips[p][c].rows[1]].status \in {"processed", "parsed"}

\* ------------------------------------------------------------------
\* C23  A job gets tip_sent = true and status notified only from the cycle
\* that is awaiting markTipSent for it, which it does only after its send
\* has returned without throwing; a row whose send throws is left as it is,
\* so that a later cycle fetches it again.
C23_MarkedOnlyAfterSend ==
  [][/\ \A j \in Ids :
          (jobs'[j].tip_sent # jobs[j].tip_sent
             \/ (jobs'[j].status = "notified" /\ jobs[j].status # "notified"))
            => \E p \in Procs : \E c \in Slots :
                 /\ tips[p][c].pc = "markTipSent"
                 /\ tips[p][c].rows[tips[p][c].idx] = j
                 /\ TipMessage(j) \in chat
     /\ \A p \in Procs : \A c \in Slots : \A j \in Reached(p, c) :
          (myFriends[p][jobs[j].user_id] \notin NotContact /\ ~SentTo(p, c, j))
            => /\ jobs'[j] = jobs[j]
               /\ j \in TipRows => j \in TipRows']_vars

\* Two rows of one user were reached in the same resumption: the send of
\* the first threw (no message, row unchanged), that of the second went
\* through.
C23_Witness ==
  \E p \in Procs : \E c \in Slots :
    /\ tips[p][c].pc = "markTipSent"
    /\ tips[p][c].idx = 2
    /\ jobs[tips[p][c].rows[1]].user_id = jobs[tips[p][c].rows[2]].user_id
    /\ TipMessage(tips[p][c].rows[1]) \notin chat
    /\ ~jobs[tips[p][c].rows[1]].tip_sent
    /\ tips[p][c].rows[1] \in TipRows

\* ------------------------------------------------------------------
\* C24  The rows fetched are attempted in ascending id order, and a failure
\* on one of them (its send throws, or its markTipSent fails) does not keep
\* the loop from reaching the later rows of the batch: a cycle that has
\* fetched its batch ends with no row unvisited.
C24_BatchInOrderToTheEnd ==
  [][\A p \in Procs : \A c \in Slots :
       /\ \A i, k \in 1..Len(tips'[p][c].rows) :
            i < k => tips'[p][c].rows[i] < tips'[p][c].rows[k]
       /\ tips[p][c].pc = "fetchPendingTips" /\ tips'[p][c].pc = "markTipSent"
            => tips'[p][c].rows = fetchPendingTips
       /\ (/\ tips[p][c].pc = "markTipSent" /\ tips'[p][c].pc = "markTipSent"
           /\ tips'[p][c] # tips[p][c])
            => /\ tips'[p][c].rows = tips[p][c].rows
               /\ tips'[p][c].idx > tips[p][c].idx
       /\ tips'[p][c].pc = "markTipSent"
            => tips'[p][c].unvisited =
                 RowsAt(tips'[p][c].rows, tips'[p][c].idx + 1, Len(tips'[p][c].rows))
       /\ tips'[p][c].pc = "idle" => tips'[p][c].unvisited = {}]_vars

\* The first of two rows of one user has failed in this cycle (its message
\* is out and its row is still unmarked, or its send threw after an earlier
\* cycle got the message out), and the loop is at the second row.
C24_Witness ==
  \E p \in Procs : \E c \in Slots :
    /\ tips[p][c].pc = "markTipSent"
    /\ tips[p][c].idx = 2
    /\ jobs[tips[p][c].rows[1]].user_id = jobs[tips[p][c].rows[2]].user_id
    /\ TipMessage(tips[p][c].rows[1]) \in chat
    /\ ~jobs[tips[p][c].rows[1]].tip_sent

\* ------------------------------------------------------------------
\* C25  The completion notice is best effort: once markDownloaded has
\* written the row, the cycle ends with the job downloaded and its file_path
\* recorded, whether the notice went out, the user could not be messaged or
\* the send threw; from the await of markDownloaded the catch is entered
\* only when that update itself failed.
C25_NoticeBestEffort ==
  [][\A p \in Procs : \A c \in Slots :
       dl[p][c].pc = "markDownloaded" /\ dl'[p][c] # dl[p][c]
         => \/ /\ jobs'[dl[p][c].row].status = "downloaded"
               /\ jobs'[dl[p][c].row].file_path = MatchFile(dl[p][c].row)
               /\ dl'[p][c].pc = "idle"
               /\ ~isProcessing'[p]
               /\ retryAfterByMatchId' = retryAfterByMatchId
            \/ /\ jobs' = jobs
               /\ chat' = chat
               /\ dl'[p][c].pc = "catchError"]_vars

\* A job is downloaded, its cycle is over, and its notice did not go out.
C25_Witness ==
  \E j \in Ids :
    /\ jobs[j].status = "downloaded"
    /\ jobs[j].file_path = MatchFile(j)
    /\ DownloadNotice(j) \notin chat
    /\ myFriends[1][jobs[j].user_id] = "Friend"
    /\ \A c \in Slots : dl[1][c].pc = "idle"
    /\ ~isProcessing[1]

\* ------------------------------------------------------------------
\* The activations whose handler has resolved a response that is an object
\* or an array, and the value a path of keys leads to in a response.
Resolved(p, c) ==
  /\ dl[p][c].matchList # NoMatchList
  /\ dl[p][c].matchList.nodes[1].kind \in {"object", "array"}

RECURSIVE At(_, _, _)
At(h, n, path) ==
  IF path = <<>> THEN n ELSE At(h, Get(h, n, Head(path)), Tail(path))

DirectPaths ==
  << <<"match", "replay_url">>, <<"matches", "0", "match", "replay_url">>,
     <<"matches", "0", "replay_url">>, <<"replay_url">>, <<"0", "replay_url">> >>

\* The strings of the direct fields, in their order, and of the last round.
DirectStrings(h) ==
  [i \in 1..Len(DirectPaths) |-> StringOf(h, At(h, 1, DirectPaths[i]))]
    \o <<StringOf(h, alternativeUrl(h))>>

\* C26  The resolver returns the first non-empty string in the order direct
\* fields, derived URL, search result: a direct field wins over data from
\* which a URL can be derived and over a string the search would find; a
\* response that is no object resolves to nothing.
C26_FirstCandidateWins ==
  \A p \in Procs : \A c \in Slots :
    /\ (dl[p][c].matchList # NoMatchList /\ ~Resolved(p, c))
         => dl[p][c].replayUrl = ""
    /\ Resolved(p, c) =>
         LET h == dl[p][c].matchList.nodes
             D == DirectStrings(h)
             first == {i \in 1..Len(D) : D[i] # "" /\ \A k \in 1..(i - 1) : D[k] = ""}
         IN  IF first # {}
               THEN \A i \in first : dl[p][c].replayUrl = D[i]
               ELSE IF buildReplayUrl(h) # ""
                 THEN dl[p][c].replayUrl = buildReplayUrl(h)
                 ELSE dl[p][c].replayUrl = StringOf(h, findReplayUrlInObject(h))

\* A response with a direct replay_url, the data of a derived URL and a
\* string for the search resolves to the direct field.
C26_Witness ==
  \E p \in Procs : \E c \in Slots :
    /\ Resolved(p, c)
    /\ LET h == dl[p][c].matchList.nodes
       IN  /\ StringOf(h, Get(h, 1, "replay_url")) # ""
           /\ buildReplayUrl(h) # ""
           /\ findReplayUrlInObject(h) # 0
           /\ \A i \in 1..3 : DirectStrings(h)[i] = ""
           /\ dl[p][c].replayUrl = StringOf(h, Get(h, 1, "replay_url"))
           /\ dl[p][c].replayUrl # buildReplayUrl(h)
    /\ dl[p][c].pc = "mkdir"

\* The activations that resolved a response from which a URL is derived.
Derives(p, c) ==
  Resolved(p, c) /\ buildReplayUrl(dl[p][c].matchList.nodes) # ""

IsDigits(str) ==
  \A i \in 1..Len(str) :
    \E d \in 1..Len(DigitChars) : SubSeq(str, i, i) = DigitChars[d]

\* C27 as stated: in the derived URL the reservation id is rendered as
\* exactly 21 decimal digits, whatever its magnitude.
C27_AlwaysTwentyOneDigits ==
  \A p \in Procs : \A c \in Slots :
    Derives(p, c) =>
      /\ Len(paddedReservation(dl[p][c].matchList.nodes)) = PadLength
      /\ IsDigits(paddedReservation(dl[p][c].matchList.nodes))

\* C27  amended: a reservation id of at most 21 decimal digits is rendered
\* as exactly 21 digits, zeros to its left; a longer one is rendered as it
\* is, with more than 21 digits.
C27_PaddedUpToTwentyOne ==
  \A p \in Procs : \A c \in Slots :
    Derives(p, c) =>
      LET h == dl[p][c].matchList.nodes
          id == String(h, reservationId(h))
          padded == paddedReservation(h)
      IN  /\ IsDigits(id)
          /\ Len(id) <= PadLength
               => /\ Len(padded) = PadLength
                  /\ IsDigits(padded)
                  /\ SubSeq(padded, PadLength - Len(id) + 1, PadLength) = id
                  /\ \A i \in 1..(PadLength - Len(id)) : SubSeq(padded, i, i) = "0"
          /\ Len(id) > PadLength => padded = id
          /\ includes(buildReplayUrl(h), "/730/" \o padded \o "_")

\* The reservation id 42 in the derived URL of a resolved response.
C27_Witness ==
  \E p \in Procs : \E c \in Slots :
    /\ Derives(p, c)
    /\ LET h == dl[p][c].matchList.nodes
       IN  /\ h[reservationId(h)] = Num(42)
           /\ paddedReservation(h) = "000000000000000000042"
    /\ dl[p][c].replayUrl =
         "http://replay135.valve.net/730/000000000000000000042_27015.dem.bz2"

\* A value that is there: not undefined, not null, not 0, not "".
HasValue(h, n) ==
  /\ n # 0
  /\ h[n].kind # "null"
  /\ h[n].kind = "number" => h[n].num > 0
  /\ h[n].kind = "string" => Len(h[n].str) > 0

\* The match info and the rounds of a response, at the top or in element 0.
Watchable(h) ==
  IF HasValue(h, Get(h, 1, "watchablematchinfo"))
    THEN Get(h, 1, "watchablematchinfo")
    ELSE At(h, 1, <<"0", "watchablematchinfo">>)

Rounds(h) ==
  IF HasValue(h, Get(h, 1, "round_stats_all"))
    THEN Get(h, 1, "round_stats_all")
    ELSE At(h, 1, <<"0", "round_stats_all">>)

LastRoundId(h) ==
  IF Rounds(h) # 0 /\ h[Rounds(h)].kind = "array"
    THEN At(h, Rounds(h), <<IndexKeys[Len(h[Rounds(h)].fields)], "reservationid">>)
    ELSE 0

\* C28  A URL is derived exactly when server_ip, tv_port and the
\* reservation id of the last round all have a value; when none is derived
\* and no direct field holds a URL, the result is that of the search.
C28_DerivedIffAllThree ==
  \A p \in Procs : \A c \in Slots :
    Resolved(p, c) =>
      LET h == dl[p][c].matchList.nodes
      IN  /\ buildReplayUrl(h) # ""
               <=> /\ HasValue(h, Get(h, Watchable(h), "server_ip"))
                   /\ HasValue(h, Get(h, Watchable(h), "tv_port"))
                   /\ HasValue(h, LastRoundId(h))
          /\ (buildReplayUrl(h) = "" /\ \A i \in 1..Len(DirectStrings(h)) :
                                          DirectStrings(h)[i] = "")
               => dl[p][c].replayUrl = StringOf(h, findReplayUrlInObject(h))

\* server_ip and tv_port are there and only the first round has a
\* reservation id: no URL is derived, and the search finds none.
C28_Witness ==
  \E p \in Procs : \E c \in Slots :
    /\ Resolved(p, c)
    /\ LET h == dl[p][c].matchList.nodes
       IN  /\ HasValue(h, Get(h, Watchable(h), "server_ip"))
           /\ HasValue(h, Get(h, Watchable(h), "tv_port"))
           /\ HasValue(h, At(h, Rounds(h), <<"0", "reservationid">>))
           /\ LastRoundId(h) = 0
           /\ buildReplayUrl(h) = ""
    /\ dl[p][c].replayUrl = ""
    /\ dl[p][c].pc = "markPending"

\* The values at depth d of a response, in the order of the search: the
\* fields, in their order, of the objects and arrays at depth d - 1.
Children(h, n) ==
  IF HasValue(h, n) /\ h[n].kind \in {"object", "array"}
    THEN [i \in 1..Len(h[n].fields) |-> h[n].fields[i].n]
    ELSE <<>>

RECURSIVE ChildrenOfAll(_, _)
ChildrenOfAll(h, level) ==
  IF level = <<>>
    THEN <<>>
    ELSE Children(h, Head(level)) \o ChildrenOfAll(h, Tail(level))

RECURSIVE Level(_, _)
Level(h, d) == IF d = 0 THEN <<1>> ELSE ChildrenOfAll(h, Level(h, d - 1))

RECURSIVE UpToLevel(_, _)
UpToLevel(h, d) ==
  IF d = 0 THEN Level(h, 0) ELSE UpToLevel(h, d - 1) \o Level(h, d)

Marked(h, n) ==
  n # 0 /\ h[n].kind = "string" /\ includes(h[n].str, ".dem.bz2")

\* C29  The search returns the first string containing ".dem.bz2" among the
\* values at depths 0 to 6, level by level and in field order within a
\* level, and nothing if there is none there, even if there is one deeper;
\* it ends on every response, also on one that contains itself.
C29_BreadthFirstToDepthSix ==
  \A p \in Procs : \A c \in Slots :
    Resolved(p, c) =>
      LET h == dl[p][c].matchList.nodes
          seen == UpToLevel(h, maxDepth)
          hits == {i \in 1..Len(seen) : Marked(h, seen[i])}
          found == findReplayUrlInObject(h)
      IN  /\ IF hits = {} THEN found = 0 ELSE found = seen[Min(hits)]
          /\ (buildReplayUrl(h) = "" /\ \A i \in 1..Len(DirectStrings(h)) :
                                          DirectStrings(h)[i] = "")
               => dl[p][c].replayUrl = (IF hits = {} THEN "" ELSE h[seen[Min(hits)]].str)

\* A response that contains itself, whose only string with ".dem.bz2" is at
\* depth 7, has resolved to nothing.
C29_Witness ==
  \E p \in Procs : \E c \in Slots :
    /\ Resolved(p, c)
    /\ LET h == dl[p][c].matchList.nodes
       IN  /\ Get(h, 1, "self") = 1
           /\ \E i \in 1..Len(Level(h, maxDepth + 1)) :
                Marked(h, Level(h, maxDepth + 1)[i])
           /\ \A i \in 1..Len(UpToLevel(h, maxDepth)) :
                ~Marked(h, UpToLevel(h, maxDepth)[i])
    /\ dl[p][c].replayUrl = ""
    /\ dl[p][c].pc = "markPending"

\* ------------------------------------------------------------------
\* C30  A downloaded job has the path downloads/match_<id>.dem of its own id
\* as file_path, and the file there is complete: markDownloaded is awaited
\* only when the pipeline into that file has finished without error, so a
\* partial file never belongs to a downloaded job.
C30_DownloadedFileComplete ==
  /\ \A j \in Ids :
       jobs[j].status = "downloaded"
         => /\ jobs[j].file_path = <<"downloads", j>>
            /\ files[j] = "complete"
  /\ \A p \in Procs : \A c \in Slots :
       dl[p][c].pc = "markDownloaded" => files[dl[p][c].row] = "complete"

\* One job is downloaded with its complete file while another, whose
\* pipeline failed and whose file could not be removed, is in error with a
\* partial file.
C30_Witness ==
  \E j, k \in Ids :
    /\ jobs[j].status = "downloaded"
    /\ jobs[j].file_path = <<"downloads", j>>
    /\ files[j] = "complete"
    /\ jobs[k].status = "error"
    /\ files[k] = "partial"

\* ------------------------------------------------------------------
\* The jobs the download cycles of a process hold, and the jobs in the
\* batches its running notification cycles have fetched.
Held(p) == {dl[p][c].row : c \in ActiveCycles(p)} \ {0}

Fetched(p) == UNION {RowsAt(tips[p][c].rows, 1, Len(tips[p][c].rows)) : c \in ActiveTips(p)}

\* C31  A download cycle and a notification cycle interleaved in one process
\* never write the same job: a job a download cycle holds is in none of the
\* batches of the running notification cycles, the status of a job in such
\* a batch is changed by nothing but the notification cycle's own mark, and
\* a job marked notified is held by no download cycle.
C31_LinesWriteDisjointJobs ==
  [][\A p \in Procs :
       /\ Held(p) \cap Fetched(p) = {}
       /\ \A j \in Ids :
            jobs'[j].status # jobs[j].status =>
              /\ j \in Fetched(p) => jobs'[j].status = "notified" /\ j \notin Held(p)'
              /\ j \in Held(p) => j \notin Fetched(p)']_vars

\* A download cycle holds a job in processing while a notification cycle of
\* the same process awaits markTipSent for a row of its batch.
C31_Witness ==
  \E p \in Procs : \E c, d \in Slots :
    /\ dl[p][c].pc \in {"await", "fetch", "pipeline", "markDownloaded"}
    /\ jobs[dl[p][c].row].status = "processing"
    /\ tips[p][d].pc = "markTipSent"
    /\ jobs[tips[p][d].rows[tips[p][d].idx]].status \in {"processed", "parsed"}

\* ------------------------------------------------------------------
\* The row of a table with its status, or its status and file_path, blanked.
SameButStatus(t, u, i) == [t[i] EXCEPT !.status = ""] = [u[i] EXCEPT !.status = ""]

SameButStatusAndPath(t, u, i) ==
  [t[i] EXCEPT !.status = "", !.file_path = <<>>] = [u[i] EXCEPT !.status = "", !.file_path = <<>>]

\* C32  markDownloaded, markError and markPending are idempotent: applied to
\* the store they have just produced they give that store again; and each
\* changes the addressed row only, of which markError and markPending change
\* the status and markDownloaded the status and file_path.
C32_MarksIdempotent ==
  [][\A id \in Ids :
       /\ jobs' = markError(id) => markError(id)' = jobs'
       /\ jobs' = markPending(id) => markPending(id)' = jobs'
       /\ \A k \in Ids :
            jobs' = markDownloaded(id, MatchFile(k))
              => markDownloaded(id, MatchFile(k))' = jobs'
       /\ Len(markError(id)) = Len(jobs)
       /\ Len(markPending(id)) = Len(jobs)
       /\ markError(id)[id].status = "error"
       /\ markPending(id)[id].status = "pending"
       /\ SameButStatus(markError(id), jobs, id)
       /\ SameButStatus(markPending(id), jobs, id)
       /\ \A i \in Ids \ {id} :
            markError(id)[i] = jobs[i] /\ markPending(id)[i] = jobs[i]
       /\ \A k \in Ids :
            LET t == markDownloaded(id, MatchFile(k))
            IN  /\ Len(t) = Len(jobs)
                /\ t[id].status = "downloaded" /\ t[id].file_path = MatchFile(k)
                /\ SameButStatusAndPath(t, jobs, id)
                /\ \A i \in Ids \ {id} : t[i] = jobs[i]]_vars

\* Job 1 was marked downloaded and then error, which left its file_path in
\* place; job 2 is as it was, in processing.
C32_Witness ==
  /\ Len(jobs) = 2
  /\ jobs[1].status = "error" /\ jobs[1].file_path = MatchFile(1)
  /\ jobs[2].status = "processing" /\ jobs[2].file_path = <<>>
  /\ \A p \in Procs : \A c \in Slots : dl[p][c].pc = "idle"

\* ------------------------------------------------------------------
\* C33  While the coordinator is not reachable no download cycle is started
\* and the download guard flag is not taken, so a download tick claims no
\* job and changes no status: with no cycle running the process locks no
\* row, and a status written by the download line is written by a cycle of
\* another process. While the social channel is not ready
\* no notification cycle is started and its guard flag is not taken, so a
\* notification tick fetches no batch and sends nothing: a feedback message
\* that goes out is sent by a cycle of another process.
C33_GatedTicksDoNothing ==
  [][\A p \in Procs :
       /\ (~gcReady[p] /\ ~gcReady'[p])
            => /\ ActiveCycles(p)' \subseteq ActiveCycles(p)
               /\ isProcessing'[p] => isProcessing[p]
               /\ ActiveCycles(p) = {}
                    => /\ dl'[p] = dl[p]
                       /\ \A j \in Ids :
                            /\ \A c \in Slots : jobs'[j].lock # <<p, c>>
                            /\ ( /\ jobs'[j].status # jobs[j].status
                                 /\ jobs'[j].status \in
                                      {"processing", "pending", "downloaded", "error"} )
                                 => \E q \in Procs \ {p} : j \in Held(q)
       /\ (~steamReady[p] /\ ~steamReady'[p])
            => /\ ActiveTips(p)' \subseteq ActiveTips(p)
               /\ isSendingTips'[p] => isSendingTips[p]
               /\ ActiveTips(p) = {}
                    => /\ tips'[p] = tips[p]
                       /\ \A j \in Ids :
                            (TipMessage(j) \in chat' /\ TipMessage(j) \notin chat)
                              => \E q \in Procs \ {p} : j \in Fetched(q)']_vars

\* Both timers are installed and both lines are idle with their flags free,
\* a job waits to be claimed and another one to be notified to a friend,
\* but the coordinator and the social channel are both away: the ticks find
\* only the gates closed.
C33_Witness ==
  \E p \in Procs :
    /\ downloadPollerStarted[p] /\ messagePollerStarted[p]
    /\ ~gcReady[p] /\ ~steamReady[p]
    /\ ~isProcessing[p] /\ ~isSendingTips[p]
    /\ ActiveCycles(p) = {} /\ ActiveTips(p) = {}
    /\ Lockable(PendingCandidates) # {}
    /\ \E j \in TipRows : canMessageUser(p, jobs[j].user_id)

\* ------------------------------------------------------------------
\* The rows a claim can take: pending, the newest of their user, and not
\* locked by the claim of another worker.
Eligible ==
  {j \in Ids : /\ jobs[j].status = "pending"
               /\ jobs[j].lock = NoLock
               /\ \A k \in Ids : SameUser(j, k) => k <= j}

\* The columns of the rows are the same in the two tables.
SameColumns(t, u) ==
  /\ Len(t) = Len(u)
  /\ \A i \in 1..Len(t) : [t[i] EXCEPT !.lock = NoLock] = [u[i] EXCEPT !.lock = NoLock]

\* C34  The claim changes at most one row. Its select returns the eligible
\* row with the greatest id, whichever users the eligible rows belong to,
\* and changes no column; its commit changes the status of exactly that row
\* from pending to processing, no other column of it and no other row; a
\* claim that finds no eligible row leaves the store as it is.
C34_ClaimChangesOneRow ==
  [][\A p \in Procs : \A c \in Slots :
       LET cur == dl[p][c]
           nxt == dl'[p][c]
       IN  /\ (cur.pc = "select" /\ nxt.pc = "update")
                => /\ Eligible # {}
                   /\ nxt.row = Max(Eligible)
                   /\ SameColumns(jobs', jobs)
           /\ (cur.pc = "select" /\ nxt.pc = "commitEmpty")
                => Eligible = {} /\ jobs' = jobs /\ nxt.row = 0
           /\ (cur.pc = "update" /\ nxt.pc # "update") => jobs' = jobs
           /\ (cur.pc = "commitEmpty" /\ nxt.pc # "commitEmpty") => jobs' = jobs
           /\ (cur.pc = "commit" /\ nxt.pc \notin {"commit", "rollback"})
                => /\ nxt.row \in {0, cur.row}
                   /\ jobs[cur.row].status = "pending"
                   /\ jobs' = [jobs EXCEPT ![cur.row] =
                                 [jobs[cur.row] EXCEPT !.status = "processing",
                                                       !.lock = NoLock]]]_vars

\* Two users have an eligible job each, and a claim has just taken the one
\* with the greater id.
C34_Witness ==
  \E p \in Procs : \E c \in Slots :
    /\ dl[p][c].pc = "update"
    /\ dl[p][c].row = 2
    /\ jobs[2].lock = <<p, c>>
    /\ ~SameUser(1, 2)
    /\ 1 \in Eligible

\* ------------------------------------------------------------------
\* The job is pending and the newest of its user: the claim query can
\* return it.
Claimable(j) ==
  /\ j \in Ids
  /\ jobs[j].status = "pending"
  /\ \A k \in Ids : SameUser(j, k) => k <= j

\* C35  No starvation: while the worker keeps ticking and the coordinator
\* stays reachable, a job that is pending and can be claimed is eventually
\* claimed (or stops being claimable), also when the higher-id job of
\* another user is requeued to pending in every cycle.
C35_NoStarvation ==
  \A j \in 1..MaxJobs :
    (Claimable(j) /\ gcReady[1] /\ downloadPollerStarted[1]) ~> ~Claimable(j)

\* ------------------------------------------------------------------
\* C36  Every job that enters processing eventually reaches pending,
\* downloaded or error, also when the worker that claimed it stops or
\* restarts in the middle of its cycle.
C36_ProcessingEventuallyLeft ==
  \A j \in 1..MaxJobs :
    (j \in Ids /\ jobs[j].status = "processing")
      ~> (j \in Ids /\ jobs[j].status \in {"pending", "downloaded", "error"})

\* The part that holds: a job in processing reaches pending or downloaded
\* when the worker that claimed it keeps running and nothing fails.
ProcessingLeftWhileRunning ==
  \A j \in 1..MaxJobs :
    (j \in Ids /\ jobs[j].status = "processing")
      ~> (j \in Ids /\ jobs[j].status \in {"pending", "downloaded"})

\* ------------------------------------------------------------------
\* C37  The feedback message of a job is sent at most once: no cycle sends
\* it for a job whose message has gone out before, also after a markTipSent
\* that failed.
C37_FeedbackAtMostOnce ==
  [][\A p \in Procs : \A c \in Slots : \A j \in Ids :
       SentTo(p, c, j) => TipMessage(j) \notin chat]_vars

\* ------------------------------------------------------------------
\* C38  Each guard flag is held exactly while a cycle of its line is
\* executing: it is true while an activation of the line is running and
\* false when none is, however the last cycle ended (normally, by an early
\* return or by an exception), so the next tick is not skipped.
C38_FlagHeldExactlyInCycle ==
  \A p \in Procs :
    /\ isProcessing[p] <=> ActiveCycles(p) # {}
    /\ isSendingTips[p] <=> ActiveTips(p) # {}

\* Both lines are idle with their flags free, timers and gates ready for the
\* next tick, after a download cycle that ended in the catch (a job is in
\* error) and a notification cycle whose markTipSent failed (a message is
\* out for a row that is not marked).
C38_Witness ==
  \E p \in Procs :
    /\ downloadPollerStarted[p] /\ messagePollerStarted[p]
    /\ gcReady[p] /\ steamReady[p]
    /\ ~isProcessing[p] /\ ~isSendingTips[p]
    /\ ActiveCycles(p) = {} /\ ActiveTips(p) = {}
    /\ \E j \in Ids : jobs[j].status = "error"
    /\ \E i \in Ids : TipMessage(i) \in chat /\ ~jobs[i].tip_sent

\* ------------------------------------------------------------------
\* C39  Each polling line is started at most once per process: whatever
\* events arrive, at most one download interval timer and at most one
\* notification interval timer are installed, each exactly when the line's
\* started flag is set, and the notification line has no timer, no started
\* flag and no cycle before the friends list has been received.
C39_LinesStartedOnce ==
  \A p \in Procs :
    /\ intervals[p].download = (IF downloadPollerStarted[p] THEN 1 ELSE 0)
    /\ intervals[p].message = (IF messagePollerStarted[p] THEN 1 ELSE 0)
    /\ ~friendsReady[p]
         => /\ intervals[p].message = 0
            /\ ~messagePollerStarted[p]
            /\ ActiveTips(p) = {}

\* Both lines have been started and the coordinator and the social channel
\* have gone away since: the next connectedToGC and friendsList events find
\* the lines started.
C39_Witness ==
  \E p \in Procs :
    /\ intervals[p] = [download |-> 1, message |-> 1]
    /\ ~gcReady[p] /\ ~steamReady[p]
    /\ friendsReady[p]

\* ------------------------------------------------------------------
\* C40  The completion notice of a job goes out only in the step in which
\* the cycle holding the job has set its status to downloaded, and at most
\* once: a cycle that awaits markDownloaded holds a job whose notice has
\* not been sent, and a job whose notice has been sent is downloaded, not
\* pending, processing or error.
C40_NoticeOnlyForDownloaded ==
  [][\A j \in Ids :
       /\ (DownloadNotice(j) \in chat' /\ DownloadNotice(j) \notin chat)
            => /\ jobs[j].status = "processing"
               /\ jobs'[j].status = "downloaded"
               /\ \E p \in Procs : \E c \in Slots :
                    /\ dl[p][c].pc = "markDownloaded"
                    /\ dl[p][c].row = j
                    /\ CycleEnds(p, c)
       /\ \A p \in Procs : \A c \in Slots :
            (dl'[p][c].pc = "markDownloaded" /\ dl'[p][c].row = j)
              => DownloadNotice(j) \notin chat'
       /\ DownloadNotice(j) \in chat'
            => jobs'[j].status \notin {"pending", "processing", "error"}]_vars

\* The notice of a downloaded job is out, while a job of a friend of the
\* bot that ended its cycle in error has none.
C40_Witness ==
  \E j, k \in Ids :
    /\ jobs[j].status = "downloaded"
    /\ DownloadNotice(j) \in chat
    /\ jobs[k].status = "error"
    /\ DownloadNotice(k) \notin chat
    /\ myFriends[1][jobs[k].user_id] = "Friend"
    /\ \A c \in Slots : dl[1][c].pc = "idle"

====
